---- MODULE Spec2Model ----
(***************************************************************************)
(* Attendance Reconciliation Engine (FIG-D-H).                             *)
(*                                                                         *)
(* Spec      : one employee's absence ledger through the baseline summary, *)
(*             the Leave Adjustment Stage and the Compensatory-Off Stage.   *)
(* SpecPunch : the Punch Normalizer on one employee-day punch list.         *)
(* SpecNight : the Overnight Shift Matcher on one employee's punch list.    *)
(* SpecRules : the Rule Resolver on the rule tables.                        *)
(* SpecCalendar : the expected working days of a period.                    *)
(* SpecSummary  : the daily reports and the summary of one employee.        *)
(* SpecBoundary : the Day-Boundary Assigner on the combined punches.        *)
(* SpecWindow   : the effective employment window of one employee.          *)
(* SpecLeave    : one call of the Leave Adjustment Stage on any baseline.   *)
(* SpecDay      : inference, fixed break, more- and short-time of a day.    *)
(* SpecHeap     : the Rule Resolver on rule dicts as shared Python objects. *)
(* SpecNightFair: SpecNight with the loop running to its return.            *)
(*                                                                         *)
(* Timestamps normalised to midnight are day ordinals of 2024 (1 is        *)
(* 2024-01-01, a Monday); "yyyy-mm-dd" strings are <<year, month, day>>.   *)
(* Floats that carry half days are kept in halves (ToFloat).               *)
(***************************************************************************)
EXTENDS Integers, Sequences, FiniteSets, TLC

VARIABLES
    pc,                                 \* position of the run
    columns,                            \* columns present in the summary frame
    Absent_Dates, Total_Absent_Days,
    Excused_Total, Final_Absent_Dates, Final_Absent_Days,
    Total_Pending_OFFs, Pending_OFF_Dates,
    Final_Absent_Dates_After_Pending, Total_Absent_After_Pending,
    Pending_OFF_Requested_Dates,
    effective_dates_map,                \* the employee's window given to the summary
    leave_format,                       \* what the leave file of the leave stage held
    leaveRuns, pendingRuns,             \* how often each stage has run
    group, status_column_was_present, consolidated_punches_list,
    total_shift_duration, total_break_duration, punch_status,
    individual_interval_details,
    records, i, daily_report_list_for_employee,
    company_configs, company_name, employee_no, source_name, effective_rules,
    start_date, end_date, rules, current_date, expected_days,
    expected_working_days,
    day_punches, window_df, Total_Present_Days,
    Total_Expected_Working_Days_In_Period,
    combined_df, selected_company_name, assigned_by,
    overrides_df, effective_map, leave_window,
    daily_more_t_td, daily_short_t_td, is_more_t_day, is_short_t_day,
    heap, rules_ref, calls

pipeVars == <<effective_dates_map, columns, Absent_Dates, Total_Absent_Days,
              Excused_Total, Final_Absent_Dates, Final_Absent_Days,
              Total_Pending_OFFs, Pending_OFF_Requested_Dates, Pending_OFF_Dates,
              Final_Absent_Dates_After_Pending, Total_Absent_After_Pending,
              leave_format, leaveRuns, pendingRuns>>
inferVars == <<total_shift_duration, total_break_duration, punch_status,
               individual_interval_details>>
punchVars == <<group, status_column_was_present, consolidated_punches_list,
               inferVars>>
nightVars == <<records, i, daily_report_list_for_employee>>
ruleVars == <<company_configs, company_name, employee_no, source_name,
              effective_rules>>
calendarVars == <<start_date, end_date, rules, current_date, expected_days,
                  expected_working_days>>
summaryVars == <<day_punches, window_df, Total_Present_Days,
                 Total_Expected_Working_Days_In_Period>>
boundaryVars == <<combined_df, selected_company_name, assigned_by>>
windowVars == <<overrides_df, effective_map, leave_window>>
dayVars == <<daily_more_t_td, daily_short_t_td, is_more_t_day, is_short_t_day>>
heapVars == <<heap, rules_ref, calls>>
restVars == <<ruleVars, calendarVars, summaryVars, boundaryVars, windowVars,
              dayVars, heapVars>>
vars == <<pc, pipeVars, punchVars, nightVars, restVars>>

-----------------------------------------------------------------------------
(* Bounds of the model                                                     *)

WindowDays == 3
MaxOverrides == 2
MaxCreditHalves == 4
MaxRequested == 2
MaxPunches == 5                         \* punches of one employee-day
MaxNightPunches == 3                    \* punches of one employee at a 24-hour location

-----------------------------------------------------------------------------
(* Values and conversions                                                  *)

NaT == 0                                \* pd.NaT / NaN: a missing date or number
NoFile == <<>>                          \* None or an empty DataFrame

Range(s) == {s[k] : k \in DOMAIN s}

ToFloat(n) == 2 * n                     \* a whole number as a float, in halves
IntOf(h) == h \div 2                    \* int(float) for h >= 0, h in halves
ClipLower0(h) == IF h < 0 THEN 0 ELSE h

\* pd.to_datetime("yyyy-mm-dd").normalize(): the day ordinal of the string
ToDatetime(s) ==
    (IF s[2] = 1 THEN 0 ELSE IF s[2] = 2 THEN 31 ELSE 60) + s[3]

\* d.strftime("%Y-%m-%d") and date.isoformat()
Strftime(d) ==
    IF d <= 31 THEN <<2024, 1, d>>
    ELSE IF d <= 60 THEN <<2024, 2, d - 31>>
    ELSE <<2024, 3, d - 60>>

\* datetime.weekday(): Monday is 0, Sunday is 6
Weekday(d) == (d - 1) % 7

RECURSIVE SortedSet(_)
\* sorted(set(...)) of day ordinals, oldest first
SortedSet(S) ==
    IF S = {} THEN <<>>
    ELSE LET m == CHOOSE x \in S : \A y \in S : x <= y
         IN  <<m>> \o SortedSet(S \ {m})

RECURSIVE Insert(_, _)
Insert(x, s) ==
    IF s = <<>> THEN <<x>>
    ELSE IF x < Head(s) THEN <<x>> \o s
    ELSE <<Head(s)>> \o Insert(x, Tail(s))

RECURSIVE Sorted(_)
\* sorted(list) of day ordinals: duplicates are kept
Sorted(s) == IF s = <<>> THEN <<>> ELSE Insert(Head(s), Sorted(Tail(s)))

\* [pd.to_datetime(d).normalize() for d in dates]
ToDatetimeAll(s) == [k \in DOMAIN s |-> ToDatetime(s[k])]
\* [d.strftime("%Y-%m-%d") for d in dates]
StrftimeAll(s) == [k \in DOMAIN s |-> Strftime(s[k])]

RECURSIVE SelectSeqIn(_, _)
\* [d for d in s if d in S]
SelectSeqIn(s, S) ==
    IF s = <<>> THEN <<>>
    ELSE IF Head(s) \in S THEN <<Head(s)>> \o SelectSeqIn(Tail(s), S)
    ELSE SelectSeqIn(Tail(s), S)

Min(a, b) == IF a <= b THEN a ELSE b
Max(a, b) == IF a >= b THEN a ELSE b

-----------------------------------------------------------------------------
(* The reporting window and the input universes                            *)

global_start_date == ToDatetime(<<2024, 1, 31>>)
global_end_date == global_start_date + WindowDays - 1
WindowDates == global_start_date .. global_end_date
\* dates a leave record or a credit request may name: the window and a day around it
InputDates == (global_start_date - 1) .. (global_end_date + 1)

Employee == "E1"                        \* the employee whose ledger is followed
OtherEmployee == "E2"

excused_types == {"vacation", "sick", "emergency", "unpaid"}

\* rows as load_vacation_file extracts them: a dated sheet gives start_date and
\* end_date, a numeric sheet gives days (in halves)
DatedRow(id, t, s, e) ==
    [id |-> id, type |-> t, sheet |-> "dated", start_date |-> s, end_date |-> e,
     days |-> NaT]
NumericRow(id, t, h) ==
    [id |-> id, type |-> t, sheet |-> "numeric", start_date |-> NaT,
     end_date |-> NaT, days |-> h]

OverrideRows ==
    LET gs == global_start_date
        ge == global_end_date
    IN  { DatedRow(Employee, "vacation", gs + 1, gs + 2),
          DatedRow(Employee, "sick", gs - 1, gs),
          DatedRow(Employee, "emergency", NaT, ge),
          DatedRow(Employee, "unpaid", ge + 1, ge - 1),
          DatedRow(Employee, "new_hire", gs + 1, NaT),
          DatedRow(Employee, "new_hire", gs - 1, NaT),
          DatedRow(Employee, "stop_working", NaT, ge - 1),
          DatedRow(Employee, "stop_working", NaT, gs),
          DatedRow(Employee, "back_from_vacation", gs + 2, NaT),
          DatedRow(OtherEmployee, "vacation", gs, ge),
          NumericRow(Employee, "vacation", 2),
          NumericRow(Employee, "sick", 3) }

SeqsUpTo(S, n) == UNION {[1..k -> S] : k \in 0..n}

OverrideFiles == SeqsUpTo(OverrideRows, MaxOverrides)

\* one day of the employee's detailed daily report
DayKinds == {"none", "worked", "single", "zero"}

DayRow(d, kind) ==
    CASE kind = "worked" ->
           [Date |-> d, Duration |-> 480, Punches |-> 2,
            Punch_Status |-> "Total Presence (2 Cleaned Punches, No Inferred Breaks/Unclear Patterns)"]
      [] kind = "single" ->
           [Date |-> d, Duration |-> 0, Punches |-> 1,
            Punch_Status |-> "Single Punch (0 Shift Duration)"]
      [] kind = "zero" ->
           [Date |-> d, Duration |-> 0, Punches |-> 2,
            Punch_Status |-> "Total Presence (2 Cleaned Punches, No Inferred Breaks/Unclear Patterns)"]

\* the window_df rows of the employee: one row per date that has punches
EmpFrames ==
    {{DayRow(d, k[d]) : d \in {x \in WindowDates : k[x] # "none"}} :
        k \in [WindowDates -> DayKinds]} \ {{}}

WeekendChoices == {{}, {4}, {4, 5}}

-----------------------------------------------------------------------------
(* Absence Enumerator                                                      *)

\* str.strip().lower() on the Punch Status labels
LowerStatus(s) ==
    IF s = "Single Punch (0 Shift Duration)" THEN "single punch (0 shift duration)"
    ELSE IF s = "Total Presence (2 Cleaned Punches, No Inferred Breaks/Unclear Patterns)"
    THEN "total presence (2 cleaned punches, no inferred breaks/unclear patterns)"
    ELSE IF s = "Complex Pattern (2 Cleaned Punches with Status, Inferred Intervals)"
    THEN "complex pattern (2 cleaned punches with status, inferred intervals)"
    ELSE s

is_single(row) ==
    \/ LowerStatus(row.Punch_Status) = "single punch (0 shift duration)"
    \/ (row.Punches = 1 /\ row.Duration = 0)

\* presence by shift duration alone
is_present_row_duration_only(row) == row.Duration > 0

is_present_row(row) == row.Duration > 0 \/ is_single(row)

_enumerate_absent_dates(emp_df, start, end, vacation_ranges, weekend_days) ==
    LET all_days == start .. end
        present_dates == {r.Date : r \in {x \in emp_df : is_present_row(x)}}
        vac_days == UNION Range(vacation_ranges)
        absent == {d \in all_days :
                      /\ Weekday(d) \notin weekend_days
                      /\ d \notin vac_days
                      /\ d \notin present_dates}
    IN  StrftimeAll(SortedSet(absent))

-----------------------------------------------------------------------------
(* Effective employment window                                             *)

MinOf(S) == CHOOSE x \in S : \A y \in S : x <= y
MaxOf(S) == CHOOSE x \in S : \A y \in S : x >= y

RowsOf(v, id) == {v[k] : k \in {j \in DOMAIN v : v[j].id = id}}

\* get_employee_effective_windows without the final clip to the global window
get_employee_effective_windows_unclipped(v, global_start, global_end, emp_id) ==
    LET rows == RowsOf(v, emp_id)
        hires == {r.start_date : r \in {x \in rows :
                     x.type = "new_hire" /\ x.start_date # NaT}}
        returns == {r.start_date : r \in {x \in rows :
                     x.type = "back_from_vacation" /\ x.start_date # NaT}}
        stops == {IF r.end_date # NaT THEN r.end_date ELSE r.start_date :
                     r \in {x \in rows : x.type = "stop_working"
                               /\ (x.end_date # NaT \/ x.start_date # NaT)}}
        starts == (IF hires = {} THEN {} ELSE {MinOf(hires)})
                    \cup (IF returns = {} THEN {} ELSE {MinOf(returns)})
        eff_start == IF starts = {} THEN global_start ELSE MaxOf(starts)
        eff_end == IF stops = {} THEN global_end ELSE MaxOf(stops)
    IN  IF rows = {} THEN <<>> ELSE <<eff_start, eff_end>>

\* get_employee_effective_windows: the entry of emp_id, or <<>> when the map has none
get_employee_effective_windows(v, global_start, global_end, emp_id) ==
    LET rows == RowsOf(v, emp_id)
        hires == {r.start_date : r \in {x \in rows :
                     x.type = "new_hire" /\ x.start_date # NaT}}
        returns == {r.start_date : r \in {x \in rows :
                     x.type = "back_from_vacation" /\ x.start_date # NaT}}
        stops == {IF r.end_date # NaT THEN r.end_date ELSE r.start_date :
                     r \in {x \in rows : x.type = "stop_working"
                               /\ (x.end_date # NaT \/ x.start_date # NaT)}}
        starts == (IF hires = {} THEN {} ELSE {MinOf(hires)})
                    \cup (IF returns = {} THEN {} ELSE {MinOf(returns)})
        eff_start == IF starts = {} THEN global_start ELSE MaxOf(starts)
        eff_end == IF stops = {} THEN global_end ELSE MaxOf(stops)
    IN  IF rows = {} THEN <<>>
        ELSE <<Max(eff_start, global_start), Min(eff_end, global_end)>>

\* effective_dates_map.get(emp_no, (start_dt, end_dt))
MapGet(m, default) == IF m = <<>> THEN default ELSE m

-----------------------------------------------------------------------------
(* Leave Adjustment Stage                                                  *)

has_ranges(v) == \E k \in DOMAIN v : v[k].sheet = "dated"
has_days_col(v) == \E k \in DOMAIN v : v[k].sheet = "numeric"

\* _clip_range that gives no dates for a record whose end precedes its start
_clip_range_no_swap(sdt, edt, win_start, win_end) ==
    IF sdt = NaT /\ edt = NaT THEN {}
    ELSE LET s0 == IF sdt = NaT THEN edt ELSE sdt
             e0 == IF edt = NaT THEN sdt ELSE edt
         IN  Max(s0, win_start) .. Min(e0, win_end)

_clip_range(sdt, edt, win_start, win_end) ==
    IF sdt = NaT /\ edt = NaT THEN {}
    ELSE LET s0 == IF sdt = NaT THEN edt ELSE sdt
             e0 == IF edt = NaT THEN sdt ELSE edt
             s1 == IF e0 < s0 THEN e0 ELSE s0
             e1 == IF e0 < s0 THEN s0 ELSE e0
         IN  Max(s1, win_start) .. Min(e1, win_end)

RECURSIVE SumDays(_, _)
\* emp_overrides.loc[type in excused_types, "days"].sum(), in halves
SumDays(v, emp_id) ==
    IF v = <<>> THEN 0
    ELSE (IF Head(v).id = emp_id /\ Head(v).type \in excused_types
             /\ Head(v).days # NaT
          THEN Head(v).days ELSE 0) + SumDays(Tail(v), emp_id)

Prefix(s, n) == SubSeq(s, 1, Min(n, Len(s)))

\* ExcusedDates that excuses every day of a leave range, absent or not
ExcusedDatesOfAnyLeaveDay(baseline_dates, v, emp_id) ==
    LET rows == RowsOf(v, emp_id)
        hires == {r.start_date : r \in {x \in rows :
                     x.type = "new_hire" /\ x.start_date # NaT}}
        stops == {r.end_date : r \in {x \in rows :
                     x.type = "stop_working" /\ x.end_date # NaT}}
        eff_start == IF hires = {} THEN global_start_date
                     ELSE Max(global_start_date, MinOf(hires))
        eff_end == IF stops = {} THEN global_end_date
                   ELSE Min(global_end_date, MaxOf(stops))
        inside == SelectSeqIn(baseline_dates, eff_start .. eff_end)
        outside == {d \in Range(baseline_dates) : d < eff_start \/ d > eff_end}
        ranged == UNION {_clip_range(r.start_date, r.end_date, eff_start, eff_end) :
                         r \in {x \in rows : x.type \in excused_types}}
        total_days == IntOf(SumDays(v, emp_id))
        removable == IF total_days > 0 /\ inside # <<>>
                     THEN Range(Prefix(inside, total_days)) ELSE {}
    IN  IF eff_end < eff_start THEN Range(baseline_dates)
        ELSE IF rows = {} THEN outside
        ELSE IF has_ranges(v) THEN outside \cup ranged
        ELSE IF has_days_col(v) THEN outside \cup removable
        ELSE outside

\* the excused dates of one employee (section 4 of apply_vacation_adjustments)
ExcusedDates(baseline_dates, v, emp_id) ==
    LET rows == RowsOf(v, emp_id)
        hires == {r.start_date : r \in {x \in rows :
                     x.type = "new_hire" /\ x.start_date # NaT}}
        stops == {r.end_date : r \in {x \in rows :
                     x.type = "stop_working" /\ x.end_date # NaT}}
        eff_start == IF hires = {} THEN global_start_date
                     ELSE Max(global_start_date, MinOf(hires))
        eff_end == IF stops = {} THEN global_end_date
                   ELSE Min(global_end_date, MaxOf(stops))
        inside == SelectSeqIn(baseline_dates, eff_start .. eff_end)
        outside == {d \in Range(baseline_dates) : d < eff_start \/ d > eff_end}
        ranged == UNION {_clip_range(r.start_date, r.end_date, eff_start, eff_end)
                            \cap Range(inside) :
                         r \in {x \in rows : x.type \in excused_types}}
        total_days == IntOf(SumDays(v, emp_id))
        removable == IF total_days > 0 /\ inside # <<>>
                     THEN Range(Prefix(inside, total_days)) ELSE {}
    IN  IF eff_end < eff_start THEN Range(baseline_dates)
        ELSE IF rows = {} THEN outside
        ELSE IF has_ranges(v) THEN outside \cup ranged
        ELSE IF has_days_col(v) THEN outside \cup removable
        ELSE outside

\* apply_vacation_adjustments that leaves Final_Absent_Days at the baseline count
apply_vacation_adjustments_stale_count(cols, absent_dates, row, v) ==
    LET baseline_dates == Sorted(ToDatetimeAll(absent_dates))
        excused_dates == ExcusedDates(baseline_dates, v, Employee)
        final_dates_ts == Sorted(SelectSeqIn(baseline_dates,
                                     Range(baseline_dates) \ excused_dates))
        final_dates_str == StrftimeAll(final_dates_ts)
    IN  [columns |-> cols \cup {"Excused_Total", "Final_Absent_Days",
                                 "Final_Absent_Dates"},
         Total_Absent_Days |-> Len(absent_dates),
         Excused_Total |-> IF v = NoFile THEN 0 ELSE Cardinality(excused_dates),
         Final_Absent_Days |-> Len(absent_dates),
         Final_Absent_Dates |-> IF v = NoFile THEN absent_dates ELSE final_dates_str]

\* apply_vacation_adjustments on the employee's summary row
apply_vacation_adjustments(cols, absent_dates, row, v) ==
    LET baseline_dates == Sorted(ToDatetimeAll(absent_dates))
        excused_dates == ExcusedDates(baseline_dates, v, Employee)
        final_dates_ts == Sorted(SelectSeqIn(baseline_dates,
                                     Range(baseline_dates) \ excused_dates))
        final_dates_str == StrftimeAll(final_dates_ts)
    IN  IF v = NoFile
        THEN [columns |-> cols \cup {"Excused_Total", "Final_Absent_Days",
                                     "Final_Absent_Dates"},
              Total_Absent_Days |-> Len(absent_dates),
              Excused_Total |->
                  IF "Excused_Total" \in cols THEN row.Excused_Total ELSE 0,
              Final_Absent_Days |->
                  IF "Final_Absent_Days" \in cols THEN row.Final_Absent_Days
                  ELSE Len(absent_dates),
              Final_Absent_Dates |->
                  IF "Final_Absent_Dates" \in cols THEN row.Final_Absent_Dates
                  ELSE absent_dates]
        ELSE [columns |-> cols \cup {"Excused_Total", "Final_Absent_Days",
                                     "Final_Absent_Dates"},
              Total_Absent_Days |-> Len(absent_dates),
              Excused_Total |-> Cardinality(excused_dates),
              Final_Absent_Days |-> Len(final_dates_str),
              Final_Absent_Dates |-> final_dates_str]


-----------------------------------------------------------------------------
(* Compensatory-Off Credit Stage                                           *)

\* rows as _aggregate_pending_df returns them: one per employee, the credit in
\* halves, the requested dates as sorted unique "yyyy-mm-dd" strings
PendingRow(id, h, req) ==
    [id |-> id, Total_Pending_OFFs |-> h,
     Pending_OFF_Requested_Dates |-> StrftimeAll(SortedSet(req))]

PendingFiles ==
    {NoFile, <<PendingRow(OtherEmployee, 2, {})>>}
      \cup {<<PendingRow(Employee, h, req)>> :
              h \in 0..MaxCreditHalves,
              req \in {r \in SUBSET InputDates : Cardinality(r) <= MaxRequested}}

\* summary.merge(pending_df, on="No.", how="left"): the employee's row, if any
MergedRow(p, emp_id) ==
    IF \E k \in DOMAIN p : p[k].id = emp_id
    THEN p[CHOOSE k \in DOMAIN p : p[k].id = emp_id]
    ELSE [id |-> emp_id, Total_Pending_OFFs |-> NaT,
          Pending_OFF_Requested_Dates |-> <<>>]     \* NaN: not a list, no request

RECURSIVE ConsumeRequestedKeep(_, _, _, _)
\* ConsumeRequested that marks a requested date without taking it off the remainder
ConsumeRequestedKeep(req_dts, pending_n, pending_dt, remaining_dt) ==
    IF req_dts = <<>> \/ pending_n <= 0
    THEN [pending_n |-> pending_n, pending_dt |-> pending_dt,
          remaining_dt |-> remaining_dt]
    ELSE IF Head(req_dts) \in Range(remaining_dt)
    THEN ConsumeRequestedKeep(Tail(req_dts), pending_n - 1,
                              Append(pending_dt, Head(req_dts)), remaining_dt)
    ELSE ConsumeRequestedKeep(Tail(req_dts), pending_n, pending_dt, remaining_dt)

RECURSIVE ConsumeRequested(_, _, _, _)
\* step 1 of the date-level logic: requested dates first, oldest first
ConsumeRequested(req_dts, pending_n, pending_dt, remaining_dt) ==
    IF req_dts = <<>> \/ pending_n <= 0
    THEN [pending_n |-> pending_n, pending_dt |-> pending_dt,
          remaining_dt |-> remaining_dt]
    ELSE IF Head(req_dts) \in Range(remaining_dt)
    THEN ConsumeRequested(Tail(req_dts), pending_n - 1,
                          Append(pending_dt, Head(req_dts)),
                          SelectSeqIn(remaining_dt,
                                      Range(remaining_dt) \ {Head(req_dts)}))
    ELSE ConsumeRequested(Tail(req_dts), pending_n, pending_dt, remaining_dt)

\* ConsumeNewest that takes the oldest remaining absences instead
ConsumeOldest(c) ==
    IF c.pending_n > 0 /\ c.remaining_dt # <<>>
    THEN IF c.pending_n >= Len(c.remaining_dt)
         THEN [pending_dt |-> c.pending_dt \o c.remaining_dt,
               remaining_dt |-> <<>>]
         ELSE [pending_dt |-> c.pending_dt \o SubSeq(c.remaining_dt, 1, c.pending_n),
               remaining_dt |->
                   SubSeq(c.remaining_dt, c.pending_n + 1, Len(c.remaining_dt))]
    ELSE [pending_dt |-> c.pending_dt, remaining_dt |-> c.remaining_dt]

\* step 2: the newest remaining absences take what credit is left
ConsumeNewest(c) ==
    IF c.pending_n > 0 /\ c.remaining_dt # <<>>
    THEN IF c.pending_n >= Len(c.remaining_dt)
         THEN [pending_dt |-> c.pending_dt \o c.remaining_dt,
               remaining_dt |-> <<>>]
         ELSE [pending_dt |-> c.pending_dt \o
                   SubSeq(c.remaining_dt, Len(c.remaining_dt) - c.pending_n + 1,
                          Len(c.remaining_dt)),
               remaining_dt |->
                   SubSeq(c.remaining_dt, 1, Len(c.remaining_dt) - c.pending_n)]
    ELSE [pending_dt |-> c.pending_dt, remaining_dt |-> c.remaining_dt]

\* the per-row date-level mapping of apply_pending_offs
PendingDateLogic(raw_list, credit, requested_dates) ==
    LET dt_list == SortedSet({ToDatetime(d) : d \in Range(raw_list)})
        pending_n == IntOf(credit)
        req_dts == SortedSet({ToDatetime(d) : d \in Range(requested_dates)})
        done == IF pending_n > 0
                THEN ConsumeNewest(ConsumeRequested(req_dts, pending_n, <<>>, dt_list))
                ELSE [pending_dt |-> <<>>, remaining_dt |-> dt_list]
    IN  [cleaned |-> StrftimeAll(dt_list),
         after |-> StrftimeAll(Sorted(done.remaining_dt)),
         pending |-> StrftimeAll(SortedSet(Range(done.pending_dt)))]

\* AuthoritativeCount without .clip(lower=0.0)
UnclippedCount(base_days, credit) == ToFloat(base_days) - credit

\* the numeric Total_Absent_After_Pending of the merged frame, in halves
AuthoritativeCount(base_days, credit) == ClipLower0(ToFloat(base_days) - credit)

\* apply_pending_offs on the employee's summary row
apply_pending_offs(cols, row, p) ==
    LET base_days == IF "Final_Absent_Days" \in cols THEN row.Final_Absent_Days
                     ELSE row.Total_Absent_Days
        m == MergedRow(p, Employee)
        credit == IF m.Total_Pending_OFFs = NaT THEN 0 ELSE m.Total_Pending_OFFs
        base_list == IF "Final_Absent_Dates" \in cols THEN row.Final_Absent_Dates
                     ELSE row.Absent_Dates
        dl == PendingDateLogic(base_list, credit, m.Pending_OFF_Requested_Dates)
    IN  IF p = NoFile
        THEN [columns |-> cols \cup {"Total_Pending_OFFs",
                  "Total_Absent_After_Pending",
                  "Final_Absent_Dates_After_Pending", "Pending_OFF_Dates"},
              Total_Pending_OFFs |-> 0,
              Pending_OFF_Requested_Dates |-> <<>>,
              Total_Absent_After_Pending |-> ToFloat(base_days),
              Final_Absent_Days |-> row.Final_Absent_Days,
              Final_Absent_Dates |-> row.Final_Absent_Dates,
              Final_Absent_Dates_After_Pending |->
                  IF "Final_Absent_Dates_After_Pending" \in cols
                  THEN row.Final_Absent_Dates_After_Pending
                  ELSE base_list,
              Pending_OFF_Dates |->
                  IF "Pending_OFF_Dates" \in cols THEN row.Pending_OFF_Dates
                  ELSE <<>>]
        ELSE [columns |-> cols \cup {"Total_Pending_OFFs",
                  "Total_Absent_After_Pending",
                  "Final_Absent_Dates_After_Pending", "Pending_OFF_Dates"},
              Total_Pending_OFFs |-> credit,
              Pending_OFF_Requested_Dates |-> m.Pending_OFF_Requested_Dates,
              Total_Absent_After_Pending |-> AuthoritativeCount(base_days, credit),
              Final_Absent_Days |-> row.Final_Absent_Days,
              Final_Absent_Dates |->
                  IF "Final_Absent_Dates" \in cols THEN dl.cleaned
                  ELSE row.Final_Absent_Dates,
              Final_Absent_Dates_After_Pending |-> dl.after,
              Pending_OFF_Dates |-> dl.pending]


-----------------------------------------------------------------------------
(* The absence ledger of one employee: summary, leave stage, credit stage  *)

SummaryRow ==
    [Absent_Dates |-> Absent_Dates, Total_Absent_Days |-> Total_Absent_Days,
     Excused_Total |-> Excused_Total, Final_Absent_Dates |-> Final_Absent_Dates,
     Final_Absent_Days |-> Final_Absent_Days,
     Final_Absent_Dates_After_Pending |-> Final_Absent_Dates_After_Pending,
     Pending_OFF_Dates |-> Pending_OFF_Dates]

\* the maps a caller can pass to generate_summary_report: none, or the one
\* get_employee_effective_windows builds from a leave file
EffectiveMaps ==
    {<<>>} \cup {get_employee_effective_windows(v, global_start_date,
                     global_end_date, Employee) : v \in OverrideFiles}

\* which branch of section 4.3 the leave file selects
LeaveFormat(v) ==
    IF v = NoFile THEN "none"
    ELSE IF has_ranges(v) THEN "ranges"
    ELSE IF has_days_col(v) THEN "days"
    ELSE "unknown_format"

\* the locals of the inference as they are initialised (lines 265-268)
InferIdle ==
    /\ total_shift_duration = 0
    /\ total_break_duration = 0
    /\ punch_status = "N/A"
    /\ individual_interval_details = <<>>

PunchIdle ==
    /\ group = <<>>
    /\ status_column_was_present = FALSE
    /\ consolidated_punches_list = <<>>
    /\ InferIdle

NightIdle ==
    /\ records = <<>>
    /\ i = 0
    /\ daily_report_list_for_employee = <<>>

RulesIdle ==
    /\ company_configs = <<>>
    /\ company_name = ""
    /\ employee_no = ""
    /\ source_name = ""
    /\ effective_rules = <<>>

CalendarIdle ==
    /\ start_date = 0
    /\ end_date = 0
    /\ rules = <<>>
    /\ current_date = 0
    /\ expected_days = 0
    /\ expected_working_days = 0

SummaryIdle ==
    /\ day_punches = <<>>
    /\ window_df = {}
    /\ Total_Present_Days = 0
    /\ Total_Expected_Working_Days_In_Period = 0

BoundaryIdle ==
    /\ combined_df = <<>>
    /\ selected_company_name = ""
    /\ assigned_by = ""

WindowIdle ==
    /\ overrides_df = <<>>
    /\ effective_map = <<>>
    /\ leave_window = <<>>

\* the locals of the day's flags as they are initialised (lines 377-380)
DayIdle ==
    /\ daily_more_t_td = 0
    /\ daily_short_t_td = 0
    /\ is_more_t_day = FALSE
    /\ is_short_t_day = FALSE

HeapIdle ==
    /\ heap = <<>>
    /\ rules_ref = 0
    /\ calls = 0

RestIdle ==
    /\ RulesIdle
    /\ CalendarIdle
    /\ SummaryIdle
    /\ BoundaryIdle
    /\ WindowIdle
    /\ DayIdle
    /\ HeapIdle

PipeIdle ==
    /\ effective_dates_map = <<>>
    /\ columns = {}
    /\ Absent_Dates = <<>>
    /\ Total_Absent_Days = 0
    /\ Excused_Total = 0
    /\ Final_Absent_Dates = <<>>
    /\ Final_Absent_Days = 0
    /\ Total_Pending_OFFs = 0
    /\ Pending_OFF_Requested_Dates = <<>>
    /\ Pending_OFF_Dates = <<>>
    /\ Final_Absent_Dates_After_Pending = <<>>
    /\ Total_Absent_After_Pending = 0
    /\ leave_format = "none"
    /\ leaveRuns = 0
    /\ pendingRuns = 0

Init ==
    /\ pc = "start"
    /\ PipeIdle
    /\ PunchIdle
    /\ NightIdle
    /\ RestIdle

\* ReportGenerator.generate_summary_report: the baseline Absent_Dates block
GenerateSummary ==
    /\ pc = "start"
    /\ \E emp_df \in EmpFrames, weekend_days \in WeekendChoices,
          m \in EffectiveMaps :
          LET win == MapGet(m, <<global_start_date, global_end_date>>)
              absent_dates_list ==
                  _enumerate_absent_dates(emp_df, win[1], win[2], <<>>, weekend_days)
          IN  /\ effective_dates_map' = m
              /\ Absent_Dates' = absent_dates_list
              /\ Total_Absent_Days' = Len(absent_dates_list)
    /\ columns' = {"Absent_Dates", "Total_Absent_Days"}
    /\ pc' = "summarised"
    /\ UNCHANGED <<Excused_Total, Final_Absent_Dates, Final_Absent_Days,
                   Total_Pending_OFFs, Pending_OFF_Requested_Dates,
                   Pending_OFF_Dates, Final_Absent_Dates_After_Pending,
                   Total_Absent_After_Pending, leave_format, leaveRuns,
                   pendingRuns, punchVars, nightVars, restVars>>

\* the leave file is the one the effective window of the summary was taken
\* from, when a window was passed to the summary
SameLeaveFile(v) ==
    \/ effective_dates_map = <<>>
    \/ effective_dates_map =
         get_employee_effective_windows(v, global_start_date, global_end_date,
                                        Employee)

\* the summary frame after a call of apply_vacation_adjustments that returned r
LeaveStageReturns(absent, r, v, runs) ==
    /\ columns' = r.columns
    /\ Absent_Dates' = absent
    /\ Total_Absent_Days' = r.Total_Absent_Days
    /\ Excused_Total' = r.Excused_Total
    /\ Final_Absent_Dates' = r.Final_Absent_Dates
    /\ Final_Absent_Days' = r.Final_Absent_Days
    /\ leave_format' = LeaveFormat(v)
    /\ leaveRuns' = runs
    /\ pc' = "adjusted"
    /\ UNCHANGED <<effective_dates_map, Total_Pending_OFFs,
                   Pending_OFF_Requested_Dates, Pending_OFF_Dates,
                   Final_Absent_Dates_After_Pending, Total_Absent_After_Pending,
                   pendingRuns, punchVars, nightVars, restVars>>

\* the Leave Adjustment Stage on the baseline summary
ApplyVacationAdjustments ==
    /\ pc = "summarised"
    /\ \E v \in OverrideFiles :
          /\ SameLeaveFile(v)
          /\ LeaveStageReturns(
                 Absent_Dates,
                 apply_vacation_adjustments(columns, Absent_Dates, SummaryRow, v),
                 v, 1)

\* the Leave Adjustment Stage run twice: the second call is given the first
\* call's Final_Absent_Dates as its baseline and the same leave file
RerunVacationAdjustments ==
    /\ pc = "summarised"
    /\ \E v \in OverrideFiles :
          /\ SameLeaveFile(v)
          /\ LET r1 == apply_vacation_adjustments(columns, Absent_Dates,
                                                  SummaryRow, v)
                 row2 == [SummaryRow EXCEPT
                            !.Absent_Dates = r1.Final_Absent_Dates,
                            !.Total_Absent_Days = r1.Total_Absent_Days,
                            !.Excused_Total = r1.Excused_Total,
                            !.Final_Absent_Dates = r1.Final_Absent_Dates,
                            !.Final_Absent_Days = r1.Final_Absent_Days]
             IN  LeaveStageReturns(
                     r1.Final_Absent_Dates,
                     apply_vacation_adjustments(r1.columns, r1.Final_Absent_Dates,
                                                row2, v),
                     v, 2)

\* the summary frame after a call of apply_pending_offs that returned r
CreditStageReturns(r, runs) ==
    /\ columns' = r.columns
    /\ Final_Absent_Dates' = r.Final_Absent_Dates
    /\ Final_Absent_Days' = r.Final_Absent_Days
    /\ Total_Pending_OFFs' = r.Total_Pending_OFFs
    /\ Pending_OFF_Requested_Dates' = r.Pending_OFF_Requested_Dates
    /\ Total_Absent_After_Pending' = r.Total_Absent_After_Pending
    /\ Final_Absent_Dates_After_Pending' = r.Final_Absent_Dates_After_Pending
    /\ Pending_OFF_Dates' = r.Pending_OFF_Dates
    /\ pendingRuns' = runs
    /\ pc' = "credited"
    /\ UNCHANGED <<effective_dates_map, Absent_Dates, Total_Absent_Days,
                   Excused_Total, leave_format, leaveRuns, punchVars, nightVars, restVars>>

\* the Compensatory-Off Credit Stage on the leave-adjusted summary
ApplyPendingOffs ==
    /\ pc = "adjusted"
    /\ \E p \in PendingFiles :
          CreditStageReturns(apply_pending_offs(columns, SummaryRow, p), 1)

\* the Compensatory-Off Credit Stage run twice: the second call is given the
\* first call's Final_Absent_Dates_After_Pending as Final_Absent_Dates (and its
\* length as Final_Absent_Days) and the same credit file
RerunPendingOffs ==
    /\ pc = "adjusted"
    /\ \E p \in PendingFiles :
          LET r1 == apply_pending_offs(columns, SummaryRow, p)
              row2 == [SummaryRow EXCEPT
                         !.Final_Absent_Dates = r1.Final_Absent_Dates_After_Pending,
                         !.Final_Absent_Days =
                             Len(r1.Final_Absent_Dates_After_Pending),
                         !.Final_Absent_Dates_After_Pending =
                             r1.Final_Absent_Dates_After_Pending,
                         !.Pending_OFF_Dates = r1.Pending_OFF_Dates]
          IN  CreditStageReturns(apply_pending_offs(r1.columns, row2, p), 2)

Next ==
    \/ GenerateSummary
    \/ ApplyVacationAdjustments
    \/ RerunVacationAdjustments
    \/ ApplyPendingOffs
    \/ RerunPendingOffs

Spec == Init /\ [][Next]_vars

-----------------------------------------------------------------------------
(* Punch Normalizer: the cleaning of one employee-day punch list           *)
(* (_calculate_non_second_cup_shift_details; get_detailed_punch_info_for_group *)
(* of fingerprint_report_page.py holds the same code on 'Date/Time')        *)

ConsolidationMinutes == 10

\* minutes after 08:00: 08:00, 08:10, 08:11, 13:00, 14:00, 19:00
PunchTimes == {0, 10, 11, 300, 360, 660}

Punch(t, s) == [Original_DateTime |-> t, Status |-> s]

RECURSIVE SortedGroups(_, _)
\* the sequences of n rows that are sorted by Original_DateTime
SortedGroups(rows, n) ==
    IF n = 0 THEN {<<>>}
    ELSE UNION {{Append(g, r) :
                    r \in {q \in rows : g = <<>> \/ g[Len(g)].Original_DateTime
                                                      <= q.Original_DateTime}} :
                g \in SortedGroups(rows, n - 1)}

\* groups sorted by Original_DateTime; without a Status column every Status is ''
PunchGroups(present) ==
    LET labels == IF present THEN {"C/In", "C/Out"} ELSE {""}
        rows == {Punch(t, s) : t \in PunchTimes, s \in labels}
    IN  UNION {SortedGroups(rows, n) : n \in 1..MaxPunches}

\* KeepsInterior that looks at the time only
KeepsInteriorTimeOnly(current_punch, last_kept_punch, present) ==
    current_punch.Original_DateTime - last_kept_punch.Original_DateTime
        > ConsolidationMinutes

\* the condition under which an interior punch is kept
KeepsInterior(current_punch, last_kept_punch, present) ==
    \/ current_punch.Original_DateTime - last_kept_punch.Original_DateTime
           > ConsolidationMinutes
    \/ (present /\ current_punch.Status # last_kept_punch.Status)

\* KeepLast without the forced append of the single-punch edge case
KeepLastNoForce(g, kept, present) ==
    LET last == g[Len(g)]
        last_kept == kept[Len(kept)]
    IN  IF Len(g) > 1
           /\ (\/ last.Original_DateTime # last_kept.Original_DateTime
               \/ (present /\ last.Status # last_kept.Status))
        THEN Append(kept, last)
        ELSE kept

\* the two statements after the loop: append the last punch
KeepLast(g, kept, present) ==
    LET last == g[Len(g)]
        last_kept == kept[Len(kept)]
        appended == IF Len(g) > 1
                       /\ (\/ last.Original_DateTime # last_kept.Original_DateTime
                           \/ (present /\ last.Status # last_kept.Status))
                    THEN Append(kept, last)
                    ELSE kept
    IN  IF Len(g) > 1 /\ Len(appended) = 1 THEN Append(appended, last)
        ELSE appended

InitPunch ==
    /\ pc = "clean_first"
    /\ status_column_was_present \in BOOLEAN
    /\ group \in PunchGroups(status_column_was_present)
    /\ consolidated_punches_list = <<>>
    /\ InferIdle
    /\ PipeIdle
    /\ NightIdle
    /\ RestIdle

\* consolidated_punches_list.append(group.iloc[0])
CleanFirst ==
    /\ pc = "clean_first"
    /\ consolidated_punches_list' = <<group[1]>>
    /\ i' = 1
    /\ pc' = "clean_loop"
    /\ UNCHANGED <<group, status_column_was_present, inferVars, pipeVars,
                   records, daily_report_list_for_employee, restVars>>

\* one turn of: for i in range(1, original_punch_count - 1)
CleanInterior ==
    /\ pc = "clean_loop"
    /\ i < Len(group) - 1
    /\ consolidated_punches_list' =
           IF KeepsInterior(group[i + 1],
                            consolidated_punches_list[Len(consolidated_punches_list)],
                            status_column_was_present)
           THEN Append(consolidated_punches_list, group[i + 1])
           ELSE consolidated_punches_list
    /\ i' = i + 1
    /\ UNCHANGED <<pc, group, status_column_was_present, inferVars, pipeVars,
                   records, daily_report_list_for_employee, restVars>>

\* the loop is over: the last punch is appended
CleanLast ==
    /\ pc = "clean_loop"
    /\ i >= Len(group) - 1
    /\ consolidated_punches_list' =
           KeepLast(group, consolidated_punches_list, status_column_was_present)
    /\ pc' = "cleaned"
    /\ UNCHANGED <<i, group, status_column_was_present, inferVars, pipeVars,
                   records, daily_report_list_for_employee, restVars>>

(* Shift Inference Engine: the pattern inference on the cleaned punches     *)

\* 'C/In' in s and 'C/Out' in s, for the labels C/In, C/Out and ''
HasIn(s) == s = "C/In"
HasOut(s) == s = "C/Out"

is_status_alternating_useful(cleaned, present) ==
    /\ present
    /\ Len(cleaned) >= 2
    /\ \E k \in 1..(Len(cleaned) - 1) : cleaned[k].Status # cleaned[k + 1].Status

\* the test of the 4-punch branch of lines 291-295
StatusMatched4(cleaned) ==
    /\ Len(cleaned) = 4
    /\ cleaned[1].Status = "C/In"
    /\ cleaned[2].Status = "C/Out"
    /\ cleaned[3].Status = "C/In"
    /\ cleaned[4].Status = "C/Out"

Interval(type, duration) == [type |-> type, duration |-> duration]

\* cleaned[k + 1] - cleaned[k] on Original_DateTime
Gap(cleaned, k) == cleaned[k + 1].Original_DateTime - cleaned[k].Original_DateTime

\* the walk over consecutive pairs of lines 309-319
WalkIntervals(cleaned) ==
    [k \in 1..(Len(cleaned) - 1) |->
        IF HasIn(cleaned[k].Status) /\ HasOut(cleaned[k + 1].Status)
        THEN Interval("Shift", Gap(cleaned, k))
        ELSE IF HasOut(cleaned[k].Status) /\ HasIn(cleaned[k + 1].Status)
        THEN Interval("Break", Gap(cleaned, k))
        ELSE Interval("General", Gap(cleaned, k))]

RECURSIVE SumType(_, _)
\* the sum of the durations of the intervals of one type
SumType(details, type) ==
    IF details = <<>> THEN 0
    ELSE (IF Head(details).type = type THEN Head(details).duration ELSE 0)
         + SumType(Tail(details), type)

\* the two shifts and the break of the first four punches
FirstFourIntervals(cleaned) ==
    <<Interval("Shift", Gap(cleaned, 1)),
      Interval("Break", Gap(cleaned, 2)),
      Interval("Shift", Gap(cleaned, 3))>>

\* range(3, cleaned_punch_count - 1): the intervals after the 4th punch
GeneralTail(cleaned) ==
    [k \in 1..(Len(cleaned) - 4) |-> Interval("General", Gap(cleaned, k + 3))]

Inferred(shift, brk, status, details) ==
    [total_shift_duration |-> shift, total_break_duration |-> brk,
     punch_status |-> status, individual_interval_details |-> details]

\* the positional template read on punches 1, 2 and 3 instead of 1..4
PositionalTemplateShifted(cleaned) ==
    LET n == Len(cleaned)
    IN  Inferred(Gap(cleaned, 1) + Gap(cleaned, 2), Gap(cleaned, 3),
                 "Inferred Two Shifts with One Break (" \o ToString(n)
                     \o " Cleaned Punches, Consistent Status/No Status Data)"
                     \o (IF n > 4 THEN " (+ additional punches beyond 4th)" ELSE ""),
                 FirstFourIntervals(cleaned) \o GeneralTail(cleaned))

\* lines 326-345: two shifts and one break inferred by position
PositionalTemplate(cleaned) ==
    LET n == Len(cleaned)
    IN  Inferred(Gap(cleaned, 1) + Gap(cleaned, 3), Gap(cleaned, 2),
                 "Inferred Two Shifts with One Break (" \o ToString(n)
                     \o " Cleaned Punches, Consistent Status/No Status Data)"
                     \o (IF n > 4 THEN " (+ additional punches beyond 4th)" ELSE ""),
                 FirstFourIntervals(cleaned) \o GeneralTail(cleaned))

\* lines 278-358: shift, break, label and intervals of the cleaned punches
InferShiftPattern(cleaned, present) ==
    LET n == Len(cleaned)
        walk == WalkIntervals(cleaned)
        walk_shift == SumType(walk, "Shift")
        walk_break == SumType(walk, "Break")
    IN  IF n = 0 THEN Inferred(0, 0, "No valid punches for day", <<>>)
        ELSE IF n = 1 THEN Inferred(0, 0, "Single Punch (0 Shift Duration)", <<>>)
        ELSE IF is_status_alternating_useful(cleaned, present) /\ StatusMatched4(cleaned)
        THEN Inferred(Gap(cleaned, 1) + Gap(cleaned, 3), Gap(cleaned, 2),
                      "Two Shifts with One Break (4 Punches, Status Matched)",
                      FirstFourIntervals(cleaned))
        ELSE IF is_status_alternating_useful(cleaned, present)
                /\ (walk_shift > 0 \/ walk_break > 0)
        THEN Inferred(walk_shift, walk_break,
                      "Complex Pattern (" \o ToString(n)
                          \o " Cleaned Punches with Status, Inferred Intervals)",
                      walk)
        ELSE IF n >= 4 THEN PositionalTemplate(cleaned)
        ELSE Inferred(cleaned[n].Original_DateTime - cleaned[1].Original_DateTime, 0,
                      "Total Presence (" \o ToString(n)
                          \o " Cleaned Punches, No Inferred Breaks/Unclear Patterns)",
                      <<Interval("Total Presence",
                                 cleaned[n].Original_DateTime
                                     - cleaned[1].Original_DateTime)>>)

\* the if/elif chain on cleaned_punch_count
InferShifts ==
    /\ pc = "cleaned"
    /\ LET r == InferShiftPattern(consolidated_punches_list, status_column_was_present)
       IN  /\ total_shift_duration' = r.total_shift_duration
           /\ total_break_duration' = r.total_break_duration
           /\ punch_status' = r.punch_status
           /\ individual_interval_details' = r.individual_interval_details
    /\ pc' = "inferred"
    /\ UNCHANGED <<i, group, status_column_was_present, consolidated_punches_list,
                   pipeVars, records, daily_report_list_for_employee, restVars>>

NextPunch ==
    \/ CleanFirst
    \/ CleanInterior
    \/ CleanLast
    \/ InferShifts

SpecPunch == InitPunch /\ [][NextPunch]_vars

-----------------------------------------------------------------------------
(* Overnight Shift Matcher: calculate_24_hour_shifts on one employee       *)
(* Original_DateTime is counted in minutes from 00:00 of day 1.            *)

MAX_SHIFT_DURATION == 1200              \* timedelta(hours=20), in minutes
ignore_start_time == 60                 \* time(1, 0, 0), minutes after midnight
ignore_end_time == 420                  \* time(7, 0, 0)

DayMinutes == 24 * 60

\* day 1 23:30, day 2 07:00, day 2 07:30, day 2 19:30, day 3 23:00
NightTimes == {1410, 1860, 1890, 2610, 4260}

\* emp_group_full_sorted.to_dict('records'): sorted by Original_DateTime
NightGroups ==
    LET rows == {Punch(t, s) : t \in NightTimes, s \in {"C/In", "C/Out", ""}}
    IN  {g \in UNION {[1..n -> rows] : n \in 1..MaxNightPunches} :
            \A k \in 1..(Len(g) - 1) :
                g[k].Original_DateTime <= g[k + 1].Original_DateTime}

\* str(status).strip().lower()
StripLower(s) ==
    IF s = "C/In" THEN "c/in" ELSE IF s = "C/Out" THEN "c/out" ELSE s

\* Timestamp.date() and Timestamp.time()
DateOf(t) == (t \div DayMinutes) + 1
TimeOf(t) == t % DayMinutes

\* strftime('%I:%M:%S %p')
Strftime12(t) ==
    LET h == TimeOf(t) \div 60
    IN  <<IF h % 12 = 0 THEN 12 ELSE h % 12, TimeOf(t) % 60, 0,
          IF h < 12 THEN "AM" ELSE "PM">>

\* format_timedelta_to_hms of a Timedelta given in minutes: <<HH, MM, SS>>
format_timedelta_to_hms(td) ==
    LET total_seconds == td * 60
        hours == total_seconds \div 3600
        remainder == total_seconds % 3600
    IN  <<hours, remainder \div 60, remainder % 60>>

RECURSIVE ScanNoCap(_, _, _)
\* the inner loop without the MAX_SHIFT_DURATION test
ScanNoCap(recs, k, j) ==
    IF j >= Len(recs) THEN -1
    ELSE IF StripLower(recs[j + 1].Status) = "c/in" THEN -1
    ELSE IF StripLower(recs[j + 1].Status) = "c/out" THEN j
    ELSE ScanNoCap(recs, k, j + 1)

RECURSIVE ScanAcrossEntries(_, _, _)
\* the inner loop without the break at a further C/In
ScanAcrossEntries(recs, k, j) ==
    IF j >= Len(recs) THEN -1
    ELSE IF StripLower(recs[j + 1].Status) = "c/out"
    THEN IF recs[j + 1].Original_DateTime - recs[k + 1].Original_DateTime
                <= MAX_SHIFT_DURATION
         THEN j
         ELSE ScanAcrossEntries(recs, k, j + 1)
    ELSE ScanAcrossEntries(recs, k, j + 1)

RECURSIVE Scan(_, _, _)
\* for j in range(i + 1, len(records)): potential_cout_index, or -1
Scan(recs, k, j) ==
    IF j >= Len(recs) THEN -1
    ELSE IF StripLower(recs[j + 1].Status) = "c/in" THEN -1
    ELSE IF StripLower(recs[j + 1].Status) = "c/out"
    THEN IF recs[j + 1].Original_DateTime - recs[k + 1].Original_DateTime
                <= MAX_SHIFT_DURATION
         THEN j
         ELSE Scan(recs, k, j + 1)
    ELSE Scan(recs, k, j + 1)

PairedRecord(current_record, matched_cout_record) ==
    [Date |-> DateOf(current_record.Original_DateTime),
     Punches |-> 2,
     First_Punch_Time |-> Strftime12(current_record.Original_DateTime),
     Last_Punch_Time |-> Strftime12(matched_cout_record.Original_DateTime),
     Total_Shift_Duration |->
         format_timedelta_to_hms(matched_cout_record.Original_DateTime
                                   - current_record.Original_DateTime),
     Punch_Status |-> "Paired C/In-C/Out Shift (24hr Logic)"]

OpenRecord(current_record) ==
    [Date |-> DateOf(current_record.Original_DateTime),
     Punches |-> 1,
     First_Punch_Time |-> Strftime12(current_record.Original_DateTime),
     Last_Punch_Time |-> Strftime12(current_record.Original_DateTime),
     Total_Shift_Duration |-> <<0, 0, 0>>,
     Punch_Status |-> "Open Shift (Missing C/Out, 24hr Logic)"]

InitNight ==
    /\ pc = "night_start"
    /\ records \in NightGroups
    /\ i = 0
    /\ daily_report_list_for_employee = <<>>
    /\ PipeIdle
    /\ PunchIdle
    /\ RestIdle

\* the conditional removal of a leading C/Out, then i = 0
NightDropLeadingOut ==
    /\ pc = "night_start"
    /\ records' =
           IF /\ records # <<>>
              /\ StripLower(records[1].Status) = "c/out"
              /\ ignore_start_time <= TimeOf(records[1].Original_DateTime)
              /\ TimeOf(records[1].Original_DateTime) <= ignore_end_time
           THEN Tail(records)
           ELSE records
    /\ i' = 0
    /\ pc' = "night_loop"
    /\ UNCHANGED <<daily_report_list_for_employee, pipeVars, punchVars, restVars>>

\* a C/In with a C/Out within MAX_SHIFT_DURATION
NightPaired ==
    /\ pc = "night_loop"
    /\ i < Len(records)
    /\ StripLower(records[i + 1].Status) = "c/in"
    /\ LET potential_cout_index == Scan(records, i, i + 1)
       IN  /\ potential_cout_index # -1
           /\ daily_report_list_for_employee' =
                  Append(daily_report_list_for_employee,
                         PairedRecord(records[i + 1],
                                      records[potential_cout_index + 1]))
           /\ i' = potential_cout_index + 1
    /\ UNCHANGED <<pc, records, pipeVars, punchVars, restVars>>

\* a C/In without a suitable C/Out: an open shift
NightOpen ==
    /\ pc = "night_loop"
    /\ i < Len(records)
    /\ StripLower(records[i + 1].Status) = "c/in"
    /\ Scan(records, i, i + 1) = -1
    /\ daily_report_list_for_employee' =
           Append(daily_report_list_for_employee, OpenRecord(records[i + 1]))
    /\ i' = i + 1
    /\ UNCHANGED <<pc, records, pipeVars, punchVars, restVars>>

\* a C/Out or another status at position i is ignored
NightIgnored ==
    /\ pc = "night_loop"
    /\ i < Len(records)
    /\ StripLower(records[i + 1].Status) # "c/in"
    /\ i' = i + 1
    /\ UNCHANGED <<pc, records, daily_report_list_for_employee, pipeVars, punchVars, restVars>>

\* while i < len(records) is over: return daily_report_list_for_employee
NightReturn ==
    /\ pc = "night_loop"
    /\ i >= Len(records)
    /\ pc' = "night_done"
    /\ UNCHANGED <<i, records, daily_report_list_for_employee, pipeVars, punchVars, restVars>>

NextNight ==
    \/ NightDropLeadingOut
    \/ NightPaired
    \/ NightOpen
    \/ NightIgnored
    \/ NightReturn

SpecNight == InitNight /\ [][NextNight]_vars

\* the call runs to its return: the loop is sequential code that takes its
\* next step whenever it has one
SpecNightFair == SpecNight /\ WF_vars(NextNight)

-----------------------------------------------------------------------------
(* Rule Resolver: get_effective_rules_for_employee_day over COMPANY_CONFIGS *)
(* A dict is a function on its keys.  A rule value is <<"scalar", v>> or     *)
(* <<"dict", d>>, so that isinstance(v, dict) can be asked of it.  Hours are *)
(* kept in minutes (7.5 hours is 450).                                       *)

FRIDAY == 4                             \* calendar.FRIDAY
SATURDAY == 5                           \* calendar.SATURDAY

EmptyDict == <<>>

Scalar(v) == <<"scalar", v>>
Dict(d) == <<"dict", d>>
isinstance_dict(x) == x[1] = "dict"

\* a dict literal whose values are all scalars
Rules(d) == [k \in DOMAIN d |-> Scalar(d[k])]

\* dict.get(k, default) on a dict of the tables
DictGet(d, k, default) == IF k \in DOMAIN d THEN d[k] ELSE default

\* rules.get(k, default) on a rule set
RuleGet(rule_set, k, default) == IF k \in DOMAIN rule_set THEN rule_set[k][2] ELSE default

\* rules[k] = v
RuleSet(rule_set, k, v) ==
    [j \in DOMAIN rule_set \cup {k} |-> IF j = k THEN Scalar(v) ELSE rule_set[j]]

\* merge_configs for values that hold no further dicts
MergeFlat(base, override) ==
    [k \in DOMAIN base \cup DOMAIN override |->
        IF k \in DOMAIN override THEN override[k] ELSE base[k]]

\* merge_configs; the rule tables nest dicts at most once
merge_configs(base, override) ==
    [k \in DOMAIN base \cup DOMAIN override |->
        IF k \notin DOMAIN override THEN base[k]
        ELSE IF k \in DOMAIN base /\ isinstance_dict(base[k])
                /\ isinstance_dict(override[k])
        THEN Dict(MergeFlat(base[k][2], override[k][2]))
        ELSE override[k]]

\* the default_rules shared by Al-hadabah times, D&H and D&co
RetailDefaults ==
    Rules(("standard_shift_hours" :> 480) @@ ("short_t_threshold_hours" :> 450)
          @@ ("more_t_start_hours" :> 540) @@ ("more_t_enabled" :> TRUE)
          @@ ("is_rotational_off" :> FALSE) @@ ("weekend_days" :> <<FRIDAY>>)
          @@ ("fixed_break_deduction_minutes" :> 0)
          @@ ("fixed_break_threshold_hours" :> 0))

FridayLocation ==
    Rules(("weekend_days" :> <<FRIDAY>>) @@ ("is_rotational_off" :> FALSE))

\* the rule tables of config.py, one location for every shape of location rule
COMPANY_CONFIGS ==
    ("Al-hadabah times" :>
        (("default_rules" :> RetailDefaults)
         @@ ("location_rules" :>
              (("HO" :> Rules(("weekend_days" :> <<FRIDAY, SATURDAY>>)
                              @@ ("weekend_rule_type" :> "alternating_f_fs")
                              @@ ("more_t_enabled" :> FALSE)
                              @@ ("is_rotational_off" :> FALSE)))
               @@ ("Warehouse" :> FridayLocation)
               @@ ("S33" :> Rules(("weekend_days" :> <<FRIDAY>>)
                               @@ ("more_t_start_hours" :> 480)
                               @@ ("more_t_enabled" :> TRUE)
                               @@ ("is_rotational_off" :> FALSE)))
               @@ ("S14" :> Rules(("weekend_days" :> <<>>)
                               @@ ("more_t_start_hours" :> 480)
                               @@ ("more_t_enabled" :> TRUE)
                               @@ ("is_rotational_off" :> FALSE)))))))
    @@ ("D&H" :>
        (("default_rules" :> RetailDefaults)
         @@ ("employee_overrides" :>
              ("1031" :> Rules(("more_t_enabled" :> FALSE)
                               @@ ("is_rotational_off" :> TRUE)
                               @@ ("weekend_days" :> <<>>)
                               @@ ("rotational_days_off_per_week" :> 1))))
         @@ ("location_rules" :> ("HO" :> FridayLocation))))
    @@ ("D&co" :>
        (("default_rules" :> RetailDefaults)
         @@ ("employee_overrides" :> EmptyDict)
         @@ ("location_rules" :> ("DCO HO" :> FridayLocation))))
    @@ ("Second Cup" :>
        (("default_rules" :>
              Rules(("standard_shift_hours" :> 540)
                    @@ ("short_t_threshold_hours" :> 510)
                    @@ ("more_t_start_hours" :> 600) @@ ("more_t_enabled" :> TRUE)
                    @@ ("weekend_days" :> <<>>) @@ ("is_rotational_off" :> FALSE)
                    @@ ("opening_hours_count" :> 12)
                    @@ ("fixed_break_deduction_minutes" :> 0)
                    @@ ("fixed_break_threshold_hours" :> 0)))
         @@ ("location_rules" :>
              (("2nd cup Warehouse" :> FridayLocation)
               @@ ("Dar al Shifa" :> Rules(("weekend_days" :> <<>>)
                                        @@ ("is_rotational_off" :> TRUE)
                                        @@ ("opening_hours_count" :> 24)
                                        @@ ("is_24_hour_location" :> TRUE)))
               @@ ("Marina mall" :> Rules(("standard_shift_hours" :> 720)
                                       @@ ("short_t_threshold_hours" :> 660)
                                       @@ ("more_t_start_hours" :> 780)
                                       @@ ("weekend_days" :> <<>>)))
               @@ ("Admin Science" :>
                      Rules("weekend_days" :> <<FRIDAY, SATURDAY>>))))))

\* the names the resolver is asked about: those of the tables and unknown ones
CompanyNames == DOMAIN COMPANY_CONFIGS \cup {"Unknown Co"}
SourceNames ==
    UNION {DOMAIN DictGet(COMPANY_CONFIGS[c], "location_rules", EmptyDict) :
              c \in DOMAIN COMPANY_CONFIGS} \cup {"Unknown Site"}
EmployeeNumbers == {"1031", "7"}

\* one layer of a rule table: any of weekend_days, is_rotational_off and a
\* nested dict may be missing
LayerChoices(nested) ==
    {MergeFlat(MergeFlat(w, r), n) :
        w \in {EmptyDict, Rules("weekend_days" :> <<>>),
               Rules("weekend_days" :> <<FRIDAY>>)},
        r \in {EmptyDict, Rules("is_rotational_off" :> TRUE),
               Rules("is_rotational_off" :> FALSE)},
        n \in {EmptyDict, "shift_bands" :> Dict(nested)}}

\* rule tables of one company "Co" with one location "Site" and one employee "7"
OtherTables ==
    {"Co" :> (("default_rules" :> d)
              @@ ("location_rules" :> ("Site" :> l))
              @@ ("employee_overrides" :> ("7" :> e))) :
        d \in LayerChoices(("early" :> 1) @@ ("late" :> 1)),
        l \in LayerChoices(("late" :> 2) @@ ("night" :> 2)),
        e \in LayerChoices(("night" :> 3) @@ ("early" :> 3))}

\* the implicit-rotational step left out
ImplyRotationalNever(rule_set) == rule_set

\* lines 766-771: no weekend days and not rotational implies rotational
ImplyRotational(rule_set) ==
    IF /\ RuleGet(rule_set, "weekend_days", <<>>) = <<>>
       /\ ~RuleGet(rule_set, "is_rotational_off", FALSE)
    THEN LET forced == RuleSet(rule_set, "is_rotational_off", TRUE)
         IN  IF "rotational_days_off_per_week" \notin DOMAIN forced
             THEN RuleSet(forced, "rotational_days_off_per_week", 1)
             ELSE forced
    ELSE rule_set

\* get_effective_rules_for_employee_day on the tables configs
get_effective_rules_for_employee_day(configs, company, employee, source) ==
    LET company_config == DictGet(configs, company, EmptyDict)
        default_rules == DictGet(company_config, "default_rules", EmptyDict)
        location_rules ==
            DictGet(DictGet(company_config, "location_rules", EmptyDict),
                    source, EmptyDict)
        employee_rules ==
            DictGet(DictGet(company_config, "employee_overrides", EmptyDict),
                    employee, EmptyDict)
    IN  merge_configs(ImplyRotational(merge_configs(default_rules, location_rules)),
                      employee_rules)

InitRules ==
    /\ pc = "rules_start"
    /\ \/ /\ company_configs = COMPANY_CONFIGS
          /\ company_name \in CompanyNames
          /\ source_name \in SourceNames
          /\ employee_no \in EmployeeNumbers
       \/ /\ company_configs \in OtherTables
          /\ company_name = "Co"
          /\ source_name = "Site"
          /\ employee_no = "7"
    /\ effective_rules = EmptyDict
    /\ PipeIdle
    /\ PunchIdle
    /\ NightIdle
    /\ CalendarIdle
    /\ SummaryIdle
    /\ BoundaryIdle
    /\ WindowIdle
    /\ DayIdle
    /\ HeapIdle

\* effective_rules = company_config.get("default_rules", {}).copy()
CopyDefaultRules ==
    /\ pc = "rules_start"
    /\ effective_rules' =
           DictGet(DictGet(company_configs, company_name, EmptyDict),
                   "default_rules", EmptyDict)
    /\ pc' = "rules_default"
    /\ UNCHANGED <<company_configs, company_name, employee_no, source_name,
                   pipeVars, punchVars, nightVars, calendarVars, summaryVars, boundaryVars,
                   windowVars, dayVars, heapVars>>

\* effective_rules = merge_configs(effective_rules, location_rules)
MergeLocationRules ==
    /\ pc = "rules_default"
    /\ effective_rules' =
           merge_configs(effective_rules,
               DictGet(DictGet(DictGet(company_configs, company_name, EmptyDict),
                               "location_rules", EmptyDict),
                       source_name, EmptyDict))
    /\ pc' = "rules_location"
    /\ UNCHANGED <<company_configs, company_name, employee_no, source_name,
                   pipeVars, punchVars, nightVars, calendarVars, summaryVars, boundaryVars,
                   windowVars, dayVars, heapVars>>

\* the implicit-rotational inference
InferRotational ==
    /\ pc = "rules_location"
    /\ effective_rules' = ImplyRotational(effective_rules)
    /\ pc' = "rules_inferred"
    /\ UNCHANGED <<company_configs, company_name, employee_no, source_name,
                   pipeVars, punchVars, nightVars, calendarVars, summaryVars, boundaryVars,
                   windowVars, dayVars, heapVars>>

\* effective_rules = merge_configs(effective_rules, employee_rules); return
MergeEmployeeRules ==
    /\ pc = "rules_inferred"
    /\ effective_rules' =
           merge_configs(effective_rules,
               DictGet(DictGet(DictGet(company_configs, company_name, EmptyDict),
                               "employee_overrides", EmptyDict),
                       employee_no, EmptyDict))
    /\ pc' = "rules_done"
    /\ UNCHANGED <<company_configs, company_name, employee_no, source_name,
                   pipeVars, punchVars, nightVars, calendarVars, summaryVars, boundaryVars,
                   windowVars, dayVars, heapVars>>

NextRules ==
    \/ CopyDefaultRules
    \/ MergeLocationRules
    \/ InferRotational
    \/ MergeEmployeeRules

SpecRules == InitRules /\ [][NextRules]_vars

-----------------------------------------------------------------------------
(* Calendar Math: get_expected_working_days_in_period                      *)
(* The float it returns is kept in sevenths of a day (24.0 is 168).        *)

CalendarSpan == 28                      \* longest period, in days

ToSevenths(n) == 7 * n

\* date.isocalendar()[1] for the dates of January to March 2024
IsoWeek(d) == ((d - 1) \div 7) + 1

\* the rule sets the tables resolve to, a two-days-a-week rotation, and a rule
\* set without any key
CalendarRules ==
    {get_effective_rules_for_employee_day(COMPANY_CONFIGS, c, e, s) :
        c \in CompanyNames, e \in EmployeeNumbers, s \in SourceNames}
    \cup {Rules(("is_rotational_off" :> TRUE)
                @@ ("rotational_days_off_per_week" :> 2)),
          EmptyDict}

\* the first days of the periods: a Monday, a Friday, a Saturday, a Wednesday
PeriodStarts == {1, 5, 6, 10}

\* the alternating rule with odd and even ISO weeks exchanged
is_weekend_swapped(d, r) ==
    LET day_of_week == Weekday(d)
        weekend_days == RuleGet(r, "weekend_days", <<FRIDAY, SATURDAY>>)
        weekend_rule_type == RuleGet(r, "weekend_rule_type", "fixed")
    IN  IF weekend_rule_type = "fixed" THEN day_of_week \in Range(weekend_days)
        ELSE IF weekend_rule_type = "alternating_f_fs"
        THEN IF IsoWeek(d) % 2 = 0 THEN day_of_week = FRIDAY
             ELSE day_of_week = FRIDAY \/ day_of_week = SATURDAY
        ELSE FALSE

\* is_weekend of the loop body (lines 809-826)
is_weekend(d, r) ==
    LET day_of_week == Weekday(d)
        weekend_days == RuleGet(r, "weekend_days", <<FRIDAY, SATURDAY>>)
        weekend_rule_type == RuleGet(r, "weekend_rule_type", "fixed")
    IN  IF weekend_rule_type = "fixed" THEN day_of_week \in Range(weekend_days)
        ELSE IF weekend_rule_type = "alternating_f_fs"
        THEN IF IsoWeek(d) % 2 = 1 THEN day_of_week = FRIDAY
             ELSE day_of_week = FRIDAY \/ day_of_week = SATURDAY
        ELSE FALSE

\* total_days - total_days * (rotational_days_off_per_week / 7.0), in sevenths
RotationalExpected(total_days, r) ==
    ToSevenths(total_days)
        - total_days * RuleGet(r, "rotational_days_off_per_week", 1)

RECURSIVE CountWorking(_, _, _)
\* the while loop: the days of [current, last] that are not weekend days
CountWorking(current, last, r) ==
    IF current > last THEN 0
    ELSE (IF is_weekend(current, r) THEN 0 ELSE 1) + CountWorking(current + 1, last, r)

\* get_expected_working_days_in_period as one value, in sevenths
get_expected_working_days_in_period(first, last, r) ==
    IF first = NaT \/ last = NaT \/ first > last THEN 0
    ELSE IF RuleGet(r, "is_rotational_off", FALSE)
    THEN RotationalExpected((last - first) + 1, r)
    ELSE ToSevenths(CountWorking(first, last, r))

InitCalendar ==
    /\ pc = "calendar_start"
    /\ start_date \in PeriodStarts \cup {NaT}
    /\ end_date \in {NaT} \cup
           {d \in 1..(10 + CalendarSpan) :
               /\ d >= start_date - 1
               /\ d <= start_date + CalendarSpan - 1}
    /\ rules \in CalendarRules
    /\ current_date = 0
    /\ expected_days = 0
    /\ expected_working_days = 0
    /\ PipeIdle
    /\ PunchIdle
    /\ NightIdle
    /\ RulesIdle
    /\ SummaryIdle
    /\ BoundaryIdle
    /\ WindowIdle
    /\ DayIdle
    /\ HeapIdle

\* the guard of line 788: return 0.0
ReturnNoPeriod ==
    /\ pc = "calendar_start"
    /\ start_date = NaT \/ end_date = NaT \/ start_date > end_date
    /\ expected_working_days' = 0
    /\ pc' = "calendar_done"
    /\ UNCHANGED <<start_date, end_date, rules, current_date, expected_days,
                   pipeVars, punchVars, nightVars, ruleVars, summaryVars, boundaryVars,
                   windowVars, dayVars, heapVars>>

\* the rotational branch
ReturnRotational ==
    /\ pc = "calendar_start"
    /\ ~(start_date = NaT \/ end_date = NaT \/ start_date > end_date)
    /\ RuleGet(rules, "is_rotational_off", FALSE)
    /\ expected_working_days' = RotationalExpected((end_date - start_date) + 1, rules)
    /\ pc' = "calendar_done"
    /\ UNCHANGED <<start_date, end_date, rules, current_date, expected_days,
                   pipeVars, punchVars, nightVars, ruleVars, summaryVars, boundaryVars,
                   windowVars, dayVars, heapVars>>

\* expected_days = 0; current_date = start_date
StartWalk ==
    /\ pc = "calendar_start"
    /\ ~(start_date = NaT \/ end_date = NaT \/ start_date > end_date)
    /\ ~RuleGet(rules, "is_rotational_off", FALSE)
    /\ expected_days' = 0
    /\ current_date' = start_date
    /\ pc' = "calendar_walk"
    /\ UNCHANGED <<start_date, end_date, rules, expected_working_days,
                   pipeVars, punchVars, nightVars, ruleVars, summaryVars, boundaryVars,
                   windowVars, dayVars, heapVars>>

\* one turn of: while current_date <= end_date
WalkDay ==
    /\ pc = "calendar_walk"
    /\ current_date <= end_date
    /\ expected_days' = IF is_weekend(current_date, rules) THEN expected_days
                        ELSE expected_days + 1
    /\ current_date' = current_date + 1
    /\ UNCHANGED <<pc, start_date, end_date, rules, expected_working_days,
                   pipeVars, punchVars, nightVars, ruleVars, summaryVars, boundaryVars,
                   windowVars, dayVars, heapVars>>

\* return float(expected_days)
ReturnCount ==
    /\ pc = "calendar_walk"
    /\ current_date > end_date
    /\ expected_working_days' = ToSevenths(expected_days)
    /\ pc' = "calendar_done"
    /\ UNCHANGED <<start_date, end_date, rules, current_date, expected_days,
                   pipeVars, punchVars, nightVars, ruleVars, summaryVars, boundaryVars,
                   windowVars, dayVars, heapVars>>

NextCalendar ==
    \/ ReturnNoPeriod
    \/ ReturnRotational
    \/ StartWalk
    \/ WalkDay
    \/ ReturnCount

SpecCalendar == InitCalendar /\ [][NextCalendar]_vars

-----------------------------------------------------------------------------
(* Baseline summary: calculate_daily_reports on one employee's punches and  *)
(* generate_summary_report on the daily records, over a reporting window    *)
(* that is one day longer than the ledger's so that it holds a Saturday     *)

report_start == global_start_date
report_end == global_end_date + 1
ReportDates == report_start .. report_end

RECURSIVE CleanInteriorFrom(_, _, _, _)
\* the loop over the interior punches, from punch k on
CleanInteriorFrom(g, k, kept, present) ==
    IF k > Len(g) - 1 THEN kept
    ELSE CleanInteriorFrom(g, k + 1,
             IF KeepsInterior(g[k], kept[Len(kept)], present)
             THEN Append(kept, g[k]) ELSE kept,
             present)

\* the universal cleaning of lines 243-262 as one value
CleanPunches(g, present) ==
    KeepLast(g, CleanInteriorFrom(g, 2, <<g[1]>>, present), present)

\* the fixed break taken off in full, also from a shift that is shorter
FixedBreakUnclipped(r, cleaned_punch_count, rule_set) ==
    LET fixed_break_deduction_minutes ==
            RuleGet(rule_set, "fixed_break_deduction_minutes", 0)
        fixed_break_threshold_hours ==
            RuleGet(rule_set, "fixed_break_threshold_hours", 0)
    IN  IF /\ fixed_break_deduction_minutes > 0
           /\ r.total_shift_duration >= fixed_break_threshold_hours
           /\ r.total_break_duration = 0
           /\ cleaned_punch_count >= 2
        THEN Inferred(r.total_shift_duration - fixed_break_deduction_minutes,
                      r.total_break_duration + fixed_break_deduction_minutes,
                      r.punch_status \o " (Fixed Break Deducted)",
                      r.individual_interval_details)
        ELSE r

\* the fixed break taken off whatever the shift and the threshold are
FixedBreakAlways(r, cleaned_punch_count, rule_set) ==
    LET fixed_break_deduction_minutes ==
            RuleGet(rule_set, "fixed_break_deduction_minutes", 0)
    IN  IF fixed_break_deduction_minutes > 0 /\ cleaned_punch_count >= 2
        THEN IF r.total_shift_duration > fixed_break_deduction_minutes
             THEN Inferred(r.total_shift_duration - fixed_break_deduction_minutes,
                           r.total_break_duration + fixed_break_deduction_minutes,
                           r.punch_status \o " (Fixed Break Deducted)",
                           r.individual_interval_details)
             ELSE Inferred(0, r.total_break_duration + r.total_shift_duration,
                           r.punch_status \o " (Fixed Break Deducted, Shift Zeroed)",
                           r.individual_interval_details)
        ELSE r

\* lines 361-376: the fixed break taken off a shift without a detected break;
\* fixed_break_threshold_hours is kept in minutes
FixedBreakDeduction(r, cleaned_punch_count, rule_set) ==
    LET fixed_break_deduction_minutes ==
            RuleGet(rule_set, "fixed_break_deduction_minutes", 0)
        fixed_break_threshold_hours ==
            RuleGet(rule_set, "fixed_break_threshold_hours", 0)
    IN  IF /\ fixed_break_deduction_minutes > 0
           /\ r.total_shift_duration >= fixed_break_threshold_hours
           /\ r.total_break_duration = 0
           /\ cleaned_punch_count >= 2
        THEN IF r.total_shift_duration > fixed_break_deduction_minutes
             THEN Inferred(r.total_shift_duration - fixed_break_deduction_minutes,
                           r.total_break_duration + fixed_break_deduction_minutes,
                           r.punch_status \o " (Fixed Break Deducted)",
                           r.individual_interval_details)
             ELSE Inferred(0, r.total_break_duration + r.total_shift_duration,
                           r.punch_status \o " (Fixed Break Deducted, Shift Zeroed)",
                           r.individual_interval_details)
        ELSE r

\* the daily record of one date: the columns the summary reads
DailyRecord(d, g, present, rule_set) ==
    LET cleaned == CleanPunches(g, present)
        r == FixedBreakDeduction(InferShiftPattern(cleaned, present), Len(cleaned),
                                 rule_set)
    IN  [Date |-> d, Duration |-> r.total_shift_duration, Punches |-> Len(g),
         Punch_Status |-> r.punch_status]

\* the punches of one date, with a Status column: none, one entry, an entry and
\* an exit eleven hours later, an exit and an entry five hours later
DayPunchLists ==
    {<<>>,
     <<Punch(0, "C/In")>>,
     <<Punch(0, "C/In"), Punch(660, "C/Out")>>,
     <<Punch(0, "C/Out"), Punch(300, "C/In")>>}

\* rule sets of the tables: fixed Friday, alternating, fixed Friday and Saturday,
\* rotational
SummaryRules ==
    {get_effective_rules_for_employee_day(COMPANY_CONFIGS, "Al-hadabah times",
                                          "7", "Warehouse"),
     get_effective_rules_for_employee_day(COMPANY_CONFIGS, "Al-hadabah times",
                                          "7", "HO"),
     get_effective_rules_for_employee_day(COMPANY_CONFIGS, "Second Cup",
                                          "7", "Admin Science"),
     get_effective_rules_for_employee_day(COMPANY_CONFIGS, "D&H", "1031", "HO")}

\* the effective windows the page computes from a leave file of at most one row
ReportEffectiveMaps ==
    {get_employee_effective_windows(v, report_start, report_end, Employee) :
        v \in SeqsUpTo(OverrideRows, 1)}

\* __is_present: duration > 0 or any punches
summary_is_present(row) == row.Duration > 0 \/ row.Punches >= 1

\* Series.round() of a non-negative float kept in sevenths
RoundSevenths(x) == ((2 * x) + 7) \div 14

InitSummary ==
    /\ pc = "summary_start"
    /\ day_punches \in [ReportDates -> DayPunchLists]
    /\ rules \in SummaryRules
    /\ effective_dates_map \in ReportEffectiveMaps
    /\ window_df = {}
    /\ Total_Present_Days = 0
    /\ Total_Expected_Working_Days_In_Period = 0
    /\ columns = {}
    /\ Absent_Dates = <<>>
    /\ Total_Absent_Days = 0
    /\ Excused_Total = 0
    /\ Final_Absent_Dates = <<>>
    /\ Final_Absent_Days = 0
    /\ Total_Pending_OFFs = 0
    /\ Pending_OFF_Requested_Dates = <<>>
    /\ Pending_OFF_Dates = <<>>
    /\ Final_Absent_Dates_After_Pending = <<>>
    /\ Total_Absent_After_Pending = 0
    /\ leave_format = "none"
    /\ leaveRuns = 0
    /\ pendingRuns = 0
    /\ start_date = 0
    /\ end_date = 0
    /\ current_date = 0
    /\ expected_days = 0
    /\ expected_working_days = 0
    /\ PunchIdle
    /\ NightIdle
    /\ RulesIdle
    /\ BoundaryIdle
    /\ WindowIdle
    /\ DayIdle
    /\ HeapIdle

\* calculate_daily_reports: one daily record for every date that has punches
CalculateDailyReports ==
    /\ pc = "summary_start"
    /\ window_df' = {DailyRecord(d, day_punches[d], TRUE, rules) :
                        d \in {x \in ReportDates : day_punches[x] # <<>>}}
    /\ pc' = "summary_daily"
    /\ UNCHANGED <<day_punches, Total_Present_Days,
                   Total_Expected_Working_Days_In_Period, pipeVars, punchVars,
                   nightVars, ruleVars, calendarVars, boundaryVars,
                   windowVars, dayVars, heapVars>>

\* if window_df.empty: return pd.DataFrame()
ReturnEmptySummary ==
    /\ pc = "summary_daily"
    /\ window_df = {}
    /\ pc' = "summary_empty"
    /\ UNCHANGED <<pipeVars, punchVars, nightVars, restVars>>

\* grouped.agg: the unique present dates of the employee
AggregatePresentDays ==
    /\ pc = "summary_daily"
    /\ window_df # {}
    /\ Total_Present_Days' =
           Cardinality({row.Date : row \in {x \in window_df : summary_is_present(x)}})
    /\ pc' = "summary_aggregated"
    /\ UNCHANGED <<day_punches, window_df, Total_Expected_Working_Days_In_Period,
                   pipeVars, punchVars, nightVars, ruleVars, calendarVars, boundaryVars,
                   windowVars, dayVars, heapVars>>

\* lines 161-246: expected working days of the effective window, the baseline
\* count expected - present clipped at 0, and the rounding to whole numbers
ExpectedAndBaselineCount ==
    /\ pc = "summary_aggregated"
    /\ LET win == MapGet(effective_dates_map, <<report_start, report_end>>)
           expected_work == get_expected_working_days_in_period(win[1], win[2], rules)
       IN  /\ Total_Expected_Working_Days_In_Period' = RoundSevenths(expected_work)
           /\ Total_Absent_Days' =
                  RoundSevenths(ClipLower0(expected_work - ToSevenths(Total_Present_Days)))
    /\ pc' = "summary_counted"
    /\ UNCHANGED <<day_punches, window_df, Total_Present_Days, effective_dates_map,
                   columns, Absent_Dates, Excused_Total, Final_Absent_Dates,
                   Final_Absent_Days, Total_Pending_OFFs,
                   Pending_OFF_Requested_Dates, Pending_OFF_Dates,
                   Final_Absent_Dates_After_Pending, Total_Absent_After_Pending,
                   leave_format, leaveRuns, pendingRuns, punchVars, nightVars,
                   ruleVars, calendarVars, boundaryVars,
                   windowVars, dayVars, heapVars>>

\* lines 279-317: Absent_Dates from the enumerator, Total_Absent_Days its length
BaselineAbsentDates ==
    /\ pc = "summary_counted"
    /\ LET win == MapGet(effective_dates_map, <<report_start, report_end>>)
           weekend_days == RuleGet(rules, "weekend_days", <<>>)
           absent_dates_list ==
               _enumerate_absent_dates(window_df, win[1], win[2], <<>>,
                                       Range(weekend_days))
       IN  /\ Absent_Dates' = absent_dates_list
           /\ Total_Absent_Days' = Len(absent_dates_list)
    /\ columns' = {"Absent_Dates", "Total_Absent_Days"}
    /\ pc' = "summary_done"
    /\ UNCHANGED <<day_punches, window_df, Total_Present_Days,
                   Total_Expected_Working_Days_In_Period, effective_dates_map,
                   Excused_Total, Final_Absent_Dates,
                   Final_Absent_Days, Total_Pending_OFFs,
                   Pending_OFF_Requested_Dates, Pending_OFF_Dates,
                   Final_Absent_Dates_After_Pending, Total_Absent_After_Pending,
                   leave_format, leaveRuns, pendingRuns, punchVars, nightVars,
                   ruleVars, calendarVars, boundaryVars,
                   windowVars, dayVars, heapVars>>

NextSummary ==
    \/ CalculateDailyReports
    \/ ReturnEmptySummary
    \/ AggregatePresentDays
    \/ ExpectedAndBaselineCount
    \/ BaselineAbsentDates

SpecSummary == InitSummary /\ [][NextSummary]_vars

-----------------------------------------------------------------------------
(* Day-Boundary Assigner: the 'Date' column of the combined punches, as     *)
(* FingerprintProcessor.process_uploaded_files and as                       *)
(* calculate_shift_durations_from_uploads of the report page assign it.     *)
(* Original_DateTime is counted in minutes from 00:00 of day 1.             *)

MaxBoundaryPunches == 2

\* day 1 00:30, day 2 00:30, day 2 00:59, day 2 01:00
BoundaryTimes == {30, 1470, 1499, 1500}

BoundaryCompanies == {"Al-hadabah times", "Second Cup"}

\* a location that closes at night and a Second Cup branch open 24 hours
BoundarySources == {"Warehouse", "Dar al Shifa"}

BoundaryRow(t, s, src) ==
    [Original_DateTime |-> t, Status |-> s, Source_Name |-> src]

\* the combined punches of the upload, sorted by Date/Time
BoundaryFrames ==
    UNION {SortedGroups({BoundaryRow(t, s, src) :
                            t \in BoundaryTimes, s \in {"C/In", "C/Out", ""},
                            src \in BoundarySources}, n) :
              n \in 1..MaxBoundaryPunches}

\* Series.dt.date.min()
GlobalMinDate(df) == MinOf({DateOf(df[k].Original_DateTime) : k \in DOMAIN df})

WithDate(row, d) ==
    [Original_DateTime |-> row.Original_DateTime, Status |-> row.Status,
     Source_Name |-> row.Source_Name, Date |-> d]

\* the 'Date' process_uploaded_files gives one row
ProcessorDate(row, company, true_global_min_date) ==
    LET t == row.Original_DateTime
    IN  IF company = "Second Cup" THEN DateOf(t)
        ELSE IF /\ TimeOf(t) \div 60 >= 0
                /\ TimeOf(t) \div 60 < 1
                /\ DateOf(t) # true_global_min_date
                /\ HasOut(row.Status)
        THEN DateOf(t) - 1
        ELSE DateOf(t)

\* the rule tables of fingerprint_report_page.py for the two companies
PageCompanyConfigs ==
    ("Al-hadabah times" :>
        (("default_rules" :>
             Rules(("standard_shift_hours" :> 480)
                   @@ ("under_time_threshold_hours" :> 450)
                   @@ ("overtime_start_hours" :> 540)
                   @@ ("over_time_enabled" :> TRUE)
                   @@ ("is_rotational_off" :> FALSE)
                   @@ ("weekend_days" :> <<FRIDAY>>)))
         @@ ("location_rules" :> ("Warehouse" :> FridayLocation))))
    @@ ("Second Cup" :>
        (("default_rules" :>
             Rules(("standard_shift_hours" :> 480)
                   @@ ("under_time_threshold_hours" :> 450)
                   @@ ("overtime_start_hours" :> 540)
                   @@ ("over_time_enabled" :> TRUE)
                   @@ ("weekend_days" :> <<FRIDAY>>)
                   @@ ("is_rotational_off" :> FALSE)
                   @@ ("opening_hours_count" :> 24)))
         @@ ("location_rules" :> ("Warehouse" :> FridayLocation))))

\* the 'Date' calculate_shift_durations_from_uploads gives one row
PageDate(row, company, global_min_date_original) ==
    LET t == row.Original_DateTime
        rules_for_punch_location ==
            get_effective_rules_for_employee_day(PageCompanyConfigs, company,
                                                 Employee, row.Source_Name)
        is_24_hour_location ==
            RuleGet(rules_for_punch_location, "opening_hours_count", 0) = 24
    IN  IF /\ ~is_24_hour_location
           /\ TimeOf(t) \div 60 = 0
           /\ TimeOf(t) % 60 >= 0
           /\ TimeOf(t) % 60 < 60
           /\ DateOf(t) # global_min_date_original
        THEN DateOf(t) - 1
        ELSE DateOf(t)

RECURSIVE DropDuplicates(_)
\* drop_duplicates(keep='first')
DropDuplicates(df) ==
    IF df = <<>> THEN <<>>
    ELSE LET init == DropDuplicates(SubSeq(df, 1, Len(df) - 1))
             last == df[Len(df)]
         IN  IF last \in Range(init) THEN init ELSE Append(init, last)

InitBoundary ==
    /\ pc = "boundary_start"
    /\ combined_df \in BoundaryFrames
    /\ selected_company_name \in BoundaryCompanies
    /\ assigned_by = ""
    /\ PipeIdle
    /\ PunchIdle
    /\ NightIdle
    /\ RulesIdle
    /\ CalendarIdle
    /\ SummaryIdle
    /\ WindowIdle
    /\ DayIdle
    /\ HeapIdle

\* FingerprintProcessor.process_uploaded_files
ProcessUploadedFiles ==
    /\ pc = "boundary_start"
    /\ LET true_global_min_date == GlobalMinDate(combined_df)
       IN  combined_df' =
               [k \in DOMAIN combined_df |->
                   WithDate(combined_df[k],
                            ProcessorDate(combined_df[k], selected_company_name,
                                          true_global_min_date))]
    /\ assigned_by' = "data_processing"
    /\ pc' = "boundary_done"
    /\ UNCHANGED <<selected_company_name, pipeVars, punchVars, nightVars, ruleVars,
                   calendarVars, summaryVars, windowVars, dayVars, heapVars>>

\* calculate_shift_durations_from_uploads
CalculateShiftDurationsFromUploads ==
    /\ pc = "boundary_start"
    /\ LET global_min_date_original == GlobalMinDate(combined_df)
           deduplicated == DropDuplicates(combined_df)
       IN  combined_df' =
               [k \in DOMAIN deduplicated |->
                   WithDate(deduplicated[k],
                            PageDate(deduplicated[k], selected_company_name,
                                     global_min_date_original))]
    /\ assigned_by' = "fingerprint_report_page"
    /\ pc' = "boundary_done"
    /\ UNCHANGED <<selected_company_name, pipeVars, punchVars, nightVars, ruleVars,
                   calendarVars, summaryVars, windowVars, dayVars, heapVars>>

NextBoundary ==
    \/ ProcessUploadedFiles
    \/ CalculateShiftDurationsFromUploads

SpecBoundary == InitBoundary /\ [][NextBoundary]_vars

-----------------------------------------------------------------------------
(* Effective employment window of one employee, as                          *)
(* get_employee_effective_windows builds it for the summary and as          *)
(* apply_vacation_adjustments builds it again from the same override file.  *)

\* eff_start and eff_end of section 4.1 of apply_vacation_adjustments
LeaveStageWindow(v, emp_id) ==
    LET rows == RowsOf(v, emp_id)
        hires == {r.start_date : r \in {x \in rows :
                     x.type = "new_hire" /\ x.start_date # NaT}}
        stops == {r.end_date : r \in {x \in rows :
                     x.type = "stop_working" /\ x.end_date # NaT}}
    IN  <<IF hires = {} THEN global_start_date
          ELSE Max(global_start_date, MinOf(hires)),
          IF stops = {} THEN global_end_date
          ELSE Min(global_end_date, MaxOf(stops))>>

InitWindow ==
    /\ pc = "window_start"
    /\ overrides_df \in OverrideFiles
    /\ effective_map = <<>>
    /\ leave_window = <<>>
    /\ PipeIdle
    /\ PunchIdle
    /\ NightIdle
    /\ RulesIdle
    /\ CalendarIdle
    /\ SummaryIdle
    /\ BoundaryIdle
    /\ DayIdle
    /\ HeapIdle

\* get_employee_effective_windows on the override file
GetEmployeeEffectiveWindows ==
    /\ pc = "window_start"
    /\ effective_map' =
           get_employee_effective_windows(overrides_df, global_start_date,
                                          global_end_date, Employee)
    /\ pc' = "window_mapped"
    /\ UNCHANGED <<overrides_df, leave_window, pipeVars, punchVars, nightVars,
                   ruleVars, calendarVars, summaryVars, boundaryVars, dayVars, heapVars>>

\* apply_vacation_adjustments up to the window of the employee's row
BuildLeaveStageWindow ==
    /\ pc = "window_mapped"
    /\ leave_window' = LeaveStageWindow(overrides_df, Employee)
    /\ pc' = "window_done"
    /\ UNCHANGED <<overrides_df, effective_map, pipeVars, punchVars, nightVars,
                   ruleVars, calendarVars, summaryVars, boundaryVars, dayVars, heapVars>>

NextWindow ==
    \/ GetEmployeeEffectiveWindows
    \/ BuildLeaveStageWindow

SpecWindow == InitWindow /\ [][NextWindow]_vars

-----------------------------------------------------------------------------
(* Leave Adjustment Stage on one baseline summary row, with the override    *)
(* file kept so that the result can be compared with the leave records.     *)

\* the baseline Absent_Dates generate_summary_report can have produced for the
\* window it was given
BaselineLists(m) ==
    LET win == MapGet(m, <<global_start_date, global_end_date>>)
    IN  {StrftimeAll(SortedSet(S)) : S \in SUBSET (win[1] .. win[2])}

InitLeave ==
    /\ pc = "leave_start"
    /\ overrides_df \in OverrideFiles
    /\ effective_dates_map \in
           {<<>>, get_employee_effective_windows(overrides_df, global_start_date,
                                                 global_end_date, Employee)}
    /\ Absent_Dates \in BaselineLists(effective_dates_map)
    /\ Total_Absent_Days = Len(Absent_Dates)
    /\ columns = {"Absent_Dates", "Total_Absent_Days"}
    /\ Excused_Total = 0
    /\ Final_Absent_Dates = <<>>
    /\ Final_Absent_Days = 0
    /\ Total_Pending_OFFs = 0
    /\ Pending_OFF_Requested_Dates = <<>>
    /\ Pending_OFF_Dates = <<>>
    /\ Final_Absent_Dates_After_Pending = <<>>
    /\ Total_Absent_After_Pending = 0
    /\ leave_format = "none"
    /\ leaveRuns = 0
    /\ pendingRuns = 0
    /\ effective_map = <<>>
    /\ leave_window = <<>>
    /\ PunchIdle
    /\ NightIdle
    /\ RulesIdle
    /\ CalendarIdle
    /\ SummaryIdle
    /\ BoundaryIdle
    /\ DayIdle
    /\ HeapIdle

\* apply_vacation_adjustments on the summary row with the override file
ApplyLeaveFile ==
    /\ pc = "leave_start"
    /\ LET r == apply_vacation_adjustments(columns, Absent_Dates, SummaryRow,
                                           overrides_df)
       IN  /\ columns' = r.columns
           /\ Total_Absent_Days' = r.Total_Absent_Days
           /\ Excused_Total' = r.Excused_Total
           /\ Final_Absent_Dates' = r.Final_Absent_Dates
           /\ Final_Absent_Days' = r.Final_Absent_Days
    /\ leave_window' = IF overrides_df = NoFile THEN leave_window
                       ELSE LeaveStageWindow(overrides_df, Employee)
    /\ leave_format' = LeaveFormat(overrides_df)
    /\ leaveRuns' = 1
    /\ pc' = "leave_done"
    /\ UNCHANGED <<effective_dates_map, Absent_Dates, Total_Pending_OFFs,
                   Pending_OFF_Requested_Dates, Pending_OFF_Dates,
                   Final_Absent_Dates_After_Pending, Total_Absent_After_Pending,
                   pendingRuns, overrides_df, effective_map, punchVars, nightVars,
                   ruleVars, calendarVars, summaryVars, boundaryVars, dayVars, heapVars>>

NextLeave == ApplyLeaveFile

SpecLeave == InitLeave /\ [][NextLeave]_vars

-----------------------------------------------------------------------------
(* One employee-day through _calculate_non_second_cup_shift_details: the    *)
(* cleaning and inference, the fixed-break deduction and the more-time /    *)
(* short-time flags. Durations are in minutes; the hour-valued rule keys     *)
(* are kept in minutes, so total_shift_hours is total_shift_duration here.  *)

MaxDayPunches == 4

\* minutes after 08:00: 08:00, 13:00, 14:00, 19:00
DayTimes == {0, 300, 360, 660}

\* the punches of one employee-day, sorted by Original_DateTime
DayGroups(present) ==
    LET labels == IF present THEN {"C/In", "C/Out"} ELSE {""}
        rows == {Punch(t, s) : t \in DayTimes, s \in labels}
    IN  UNION {SortedGroups(rows, n) : n \in 1..MaxDayPunches}

\* effective rules of a day: no fixed break, one of an hour and one of six
\* hours, with and without a threshold of six hours; more-time from nine or
\* five hours on, short-time below seven and a half or five hours
DayRuleSets ==
    {EmptyDict} \cup
    {Rules(("fixed_break_deduction_minutes" :> d)
           @@ ("fixed_break_threshold_hours" :> h)
           @@ ("more_t_enabled" :> e)
           @@ ("more_t_start_hours" :> ms[1])
           @@ ("short_t_threshold_hours" :> ms[2])) :
        d \in {0, 60, 360}, h \in {0, 360}, e \in BOOLEAN,
        ms \in {<<540, 450>>, <<300, 300>>, <<300, 450>>}}

InitDay ==
    /\ pc = "day_start"
    /\ status_column_was_present \in BOOLEAN
    /\ group \in DayGroups(status_column_was_present)
    /\ effective_rules \in DayRuleSets
    /\ consolidated_punches_list = <<>>
    /\ i = 0
    /\ InferIdle
    /\ DayIdle
    /\ HeapIdle
    /\ PipeIdle
    /\ records = <<>>
    /\ daily_report_list_for_employee = <<>>
    /\ company_configs = EmptyDict
    /\ company_name = ""
    /\ employee_no = ""
    /\ source_name = ""
    /\ CalendarIdle
    /\ SummaryIdle
    /\ BoundaryIdle
    /\ WindowIdle

\* lines 244-359: the cleaning and the pattern inference
CleanAndInfer ==
    /\ pc = "day_start"
    /\ LET cleaned == CleanPunches(group, status_column_was_present)
           r == InferShiftPattern(cleaned, status_column_was_present)
       IN  /\ consolidated_punches_list' = cleaned
           /\ total_shift_duration' = r.total_shift_duration
           /\ total_break_duration' = r.total_break_duration
           /\ punch_status' = r.punch_status
           /\ individual_interval_details' = r.individual_interval_details
    /\ pc' = "day_inferred"
    /\ UNCHANGED <<i, group, status_column_was_present, pipeVars, records,
                   daily_report_list_for_employee, ruleVars, calendarVars,
                   summaryVars, boundaryVars, windowVars, dayVars, heapVars>>

\* lines 361-375: the fixed-break deduction
ApplyFixedBreak ==
    /\ pc = "day_inferred"
    /\ LET r == FixedBreakDeduction(
                    Inferred(total_shift_duration, total_break_duration,
                             punch_status, individual_interval_details),
                    Len(consolidated_punches_list), effective_rules)
       IN  /\ total_shift_duration' = r.total_shift_duration
           /\ total_break_duration' = r.total_break_duration
           /\ punch_status' = r.punch_status
    /\ pc' = "day_deducted"
    /\ UNCHANGED <<i, group, status_column_was_present, consolidated_punches_list,
                   individual_interval_details, pipeVars, records,
                   daily_report_list_for_employee, ruleVars, calendarVars,
                   summaryVars, boundaryVars, windowVars, dayVars, heapVars>>

\* daily_more_t_td of lines 384-388
DailyMoreT(shift_hours, enabled, start_hours) ==
    IF enabled /\ shift_hours > start_hours THEN shift_hours - start_hours ELSE 0

\* daily_short_t_td without the test that the shift is longer than zero
DailyShortTOfAnyShift(shift_hours, threshold_hours) ==
    IF shift_hours < threshold_hours THEN threshold_hours - shift_hours ELSE 0

\* daily_short_t_td of lines 390-393
DailyShortT(shift_hours, threshold_hours) ==
    IF shift_hours < threshold_hours /\ shift_hours > 0
    THEN threshold_hours - shift_hours ELSE 0

\* lines 377-393: more-time and short-time of the day
ComputeMoreShort ==
    /\ pc = "day_deducted"
    /\ LET short_t_threshold_hours ==
               RuleGet(effective_rules, "short_t_threshold_hours", 450)
           more_t_start_hours == RuleGet(effective_rules, "more_t_start_hours", 540)
           more_t_enabled == RuleGet(effective_rules, "more_t_enabled", TRUE)
           total_shift_hours == total_shift_duration
           more_td == DailyMoreT(total_shift_hours, more_t_enabled,
                                 more_t_start_hours)
           short_td == DailyShortT(total_shift_hours, short_t_threshold_hours)
       IN  /\ daily_more_t_td' = more_td
           /\ daily_short_t_td' = short_td
           /\ is_more_t_day' = (more_td > 0)
           /\ is_short_t_day' = (short_td > 0)
    /\ pc' = "day_done"
    /\ UNCHANGED <<i, group, status_column_was_present, consolidated_punches_list,
                   inferVars, pipeVars, records, daily_report_list_for_employee,
                   ruleVars, calendarVars, summaryVars, boundaryVars, windowVars, heapVars>>

NextDay ==
    \/ CleanAndInfer
    \/ ApplyFixedBreak
    \/ ComputeMoreShort

SpecDay == InitDay /\ [][NextDay]_vars

-----------------------------------------------------------------------------
(* Rule resolution over Python objects (config.py 738-779): dicts are      *)
(* objects on a heap, a name holds a reference, and a nested dict is held  *)
(* by reference in the dict that contains it                               *)

MaxCalls == 2

Ref(id) == <<"ref", id>>
IsRef(x) == x[1] = "ref"

\* the objects of the tables: default_rules, the rules of "Site", the
\* overrides of "7", and the nested dict of each where it has one
TableId ==
    ("default_rules" :> 1) @@ ("location_rules" :> 2)
    @@ ("employee_overrides" :> 3)
NestedId(id) == id + Cardinality(DOMAIN TableId)

\* the object of one layer: its nested dict is a reference
LayerObject(layer, id) ==
    [k \in DOMAIN layer |->
        IF isinstance_dict(layer[k]) THEN Ref(NestedId(id)) ELSE layer[k]]

LayerOf(configs, id) ==
    IF id = TableId["default_rules"] THEN configs["Co"]["default_rules"]
    ELSE IF id = TableId["location_rules"]
    THEN configs["Co"]["location_rules"]["Site"]
    ELSE configs["Co"]["employee_overrides"]["7"]

\* the heap that holds the module-level COMPANY_CONFIGS after import
TableObjects(configs) ==
    LET ids == {TableId[t] : t \in DOMAIN TableId}
        nested == {id \in ids : "shift_bands" \in DOMAIN LayerOf(configs, id)}
    IN  [id \in ids \cup {NestedId(n) : n \in nested} |->
            IF id \in ids THEN LayerObject(LayerOf(configs, id), id)
            ELSE LayerOf(configs, CHOOSE n \in nested : NestedId(n) = id)
                     ["shift_bands"][2]]

\* the value of the dict behind a reference
Deref(h, id) ==
    [k \in DOMAIN h[id] |->
        IF IsRef(h[id][k]) THEN Dict(h[h[id][k][2]]) ELSE h[id][k]]

\* the rule tables of the heap specification: every layer may nest a dict
HeapTables ==
    {t \in OtherTables :
        /\ "is_rotational_off" \notin DOMAIN t["Co"]["default_rules"]
        /\ "weekend_days" \notin DOMAIN t["Co"]["employee_overrides"]["7"]}

\* a fresh object id
NewId(h) == MaxOf(DOMAIN h) + 1

\* {}: a new empty dict
NewDict(h) == [heap |-> h @@ (NewId(h) :> EmptyDict), ref |-> NewId(h)]

\* no copy: the same object under another name
dict_copy_shares(h, id) == [heap |-> h, ref |-> id]

\* base.copy(): a new object with the same entries (a shallow copy)
dict_copy(h, id) == [heap |-> h @@ (NewId(h) :> h[id]), ref |-> NewId(h)]

\* merged[k] = v
SetItem(h, id, k, v) ==
    [h EXCEPT ![id] = [j \in DOMAIN @ \cup {k} |-> IF j = k THEN v ELSE @[j]]]

\* merge_configs(merged[k], v) on two nested dicts, which hold no further dicts
MergeNested(h, base, override) ==
    LET merged == dict_copy(h, base)
    IN  [heap |-> [merged.heap EXCEPT ![merged.ref] = MergeFlat(@, h[override])],
         ref |-> merged.ref]

\* the loop of lines 745-749 over the keys still to visit
RECURSIVE MergeItems(_, _, _, _)
MergeItems(h, merged, override, keys) ==
    IF keys = {} THEN h
    ELSE LET k == CHOOSE x \in keys : TRUE
             v == h[override][k]
             old == DictGet(h[merged], k, Scalar(0))
             after ==
                 IF IsRef(old) /\ IsRef(v)
                 THEN LET inner == MergeNested(h, old[2], v[2])
                      IN  SetItem(inner.heap, merged, k, Ref(inner.ref))
                 ELSE SetItem(h, merged, k, v)
         IN  MergeItems(after, merged, override, keys \ {k})

\* merge_configs(base, override) on references
merge_configs_refs(h, base, override) ==
    LET merged == dict_copy(h, base)
    IN  [heap |-> MergeItems(merged.heap, merged.ref, override,
                             DOMAIN h[override]),
         ref |-> merged.ref]

\* company_config.get(table, {}).get(name, {}): the table's object, or a new {}
TableGet(h, name, known, id) ==
    IF name = known THEN [heap |-> h, ref |-> id] ELSE NewDict(h)

InitHeap ==
    /\ pc = "heap_start"
    /\ company_configs \in HeapTables
    /\ company_name = "Co"
    /\ source_name \in {"Site", "Unknown Site"}
    /\ employee_no \in {"7", "Unknown"}
    /\ effective_rules = EmptyDict
    /\ heap = TableObjects(company_configs)
    /\ rules_ref = 0
    /\ calls = 1
    /\ PipeIdle
    /\ PunchIdle
    /\ NightIdle
    /\ CalendarIdle
    /\ SummaryIdle
    /\ BoundaryIdle
    /\ WindowIdle
    /\ DayIdle

\* effective_rules = company_config.get("default_rules", {}).copy()
HeapCopyDefault ==
    /\ pc = "heap_start"
    /\ LET copied == dict_copy(heap, TableId["default_rules"])
       IN  /\ heap' = copied.heap
           /\ rules_ref' = copied.ref
    /\ pc' = "heap_default"
    /\ UNCHANGED <<ruleVars, calls, pipeVars, punchVars, nightVars, calendarVars,
                   summaryVars, boundaryVars, windowVars, dayVars>>

\* effective_rules = merge_configs(effective_rules, location_rules)
HeapMergeLocation ==
    /\ pc = "heap_default"
    /\ LET location_rules ==
               TableGet(heap, source_name, "Site", TableId["location_rules"])
           merged == merge_configs_refs(location_rules.heap, rules_ref,
                                        location_rules.ref)
       IN  /\ heap' = merged.heap
           /\ rules_ref' = merged.ref
    /\ pc' = "heap_location"
    /\ UNCHANGED <<ruleVars, calls, pipeVars, punchVars, nightVars, calendarVars,
                   summaryVars, boundaryVars, windowVars, dayVars>>

\* lines 767-771: the inference assigns into the dict effective_rules names
HeapInferRotational ==
    /\ pc = "heap_location"
    /\ heap' = [heap EXCEPT ![rules_ref] = ImplyRotational(@)]
    /\ pc' = "heap_inferred"
    /\ UNCHANGED <<ruleVars, rules_ref, calls, pipeVars, punchVars, nightVars,
                   calendarVars, summaryVars, boundaryVars, windowVars, dayVars>>

\* effective_rules = merge_configs(effective_rules, employee_rules); return
HeapMergeEmployee ==
    /\ pc = "heap_inferred"
    /\ LET employee_rules ==
               TableGet(heap, employee_no, "7", TableId["employee_overrides"])
           merged == merge_configs_refs(employee_rules.heap, rules_ref,
                                        employee_rules.ref)
       IN  /\ heap' = merged.heap
           /\ rules_ref' = merged.ref
           /\ effective_rules' = Deref(merged.heap, merged.ref)
    /\ pc' = "heap_done"
    /\ UNCHANGED <<company_configs, company_name, employee_no, source_name,
                   calls, pipeVars, punchVars, nightVars, calendarVars,
                   summaryVars, boundaryVars, windowVars, dayVars>>

\* the next call, with any arguments
HeapNextCall ==
    /\ pc = "heap_done"
    /\ calls < MaxCalls
    /\ calls' = calls + 1
    /\ source_name' \in {"Site", "Unknown Site"}
    /\ employee_no' \in {"7", "Unknown"}
    /\ rules_ref' = 0
    /\ pc' = "heap_start"
    /\ UNCHANGED <<company_configs, company_name, effective_rules, heap,
                   pipeVars, punchVars, nightVars, calendarVars, summaryVars,
                   boundaryVars, windowVars, dayVars>>

NextHeap ==
    \/ HeapCopyDefault
    \/ HeapMergeLocation
    \/ HeapInferRotational
    \/ HeapMergeEmployee
    \/ HeapNextCall

SpecHeap == InitHeap /\ [][NextHeap]_vars

-----------------------------------------------------------------------------
(* Properties of the absence ledger                                        *)

\* the days a list of "yyyy-mm-dd" strings names
DatesOf(s) == {ToDatetime(d) : d \in Range(s)}

\* the k earliest / the k latest days of a set
EarliestOf(S, k) == {d \in S : Cardinality({e \in S : e < d}) < k}
LatestOf(S, k) == {d \in S : Cardinality({e \in S : e > d}) < k}

\* C1: once the summary, the leave stage and the credit stage have run in that
\* order, Final_Absent_Dates_After_Pending is a subset of Final_Absent_Dates,
\* which is a subset of Absent_Dates, which lies inside the window [start, end].
C1_SubsetChain ==
    pc = "credited" =>
        /\ Range(Final_Absent_Dates_After_Pending) \subseteq Range(Final_Absent_Dates)
        /\ Range(Final_Absent_Dates) \subseteq Range(Absent_Dates)
        /\ DatesOf(Absent_Dates) \subseteq WindowDates

\* a run where each stage removed a date and one date is still absent, and the
\* summary was enumerated over an effective window taken from the leave file
C1_Witness ==
    /\ pc = "credited"
    /\ leaveRuns = 1 /\ pendingRuns = 1
    /\ effective_dates_map # <<>>
    /\ Len(Absent_Dates) = 3
    /\ Len(Final_Absent_Dates) = 2
    /\ Len(Final_Absent_Dates_After_Pending) = 1

\* C2: after apply_pending_offs no date is both in Pending_OFF_Dates and in
\* Final_Absent_Dates_After_Pending, whatever the credit and the requested dates.
C2_PendingDisjoint ==
    pc = "credited" =>
        Range(Pending_OFF_Dates) \cap Range(Final_Absent_Dates_After_Pending) = {}

\* a requested date and a newest date were consumed and one absence remains
C2_Witness ==
    /\ pc = "credited"
    /\ Pending_OFF_Requested_Dates # <<>>
    /\ Len(Pending_OFF_Dates) = 2
    /\ Len(Final_Absent_Dates_After_Pending) = 1
    /\ Range(Pending_OFF_Requested_Dates) \cap Range(Pending_OFF_Dates) # {}

\* C3: after apply_pending_offs, for every credit value (whole or fractional),
\* the numeric Total_Absent_After_Pending equals the length of
\* Final_Absent_Dates_After_Pending.
C3_CountEqualsLength ==
    pc = "credited" =>
        Total_Absent_After_Pending = ToFloat(Len(Final_Absent_Dates_After_Pending))

\* C4: after apply_vacation_adjustments, on the normal path and on the
\* passthrough path, Final_Absent_Days is the length of Final_Absent_Dates and
\* Total_Absent_Days is the length of Absent_Dates.
C4_CountsMatchLists ==
    pc = "adjusted" =>
        /\ Final_Absent_Days = Len(Final_Absent_Dates)
        /\ Total_Absent_Days = Len(Absent_Dates)

\* the normal path excused some of the baseline dates and left some
C4_Witness ==
    /\ pc = "adjusted"
    /\ leaveRuns = 1
    /\ leave_format = "ranges"
    /\ Excused_Total > 0
    /\ Final_Absent_Dates # <<>>
    /\ Final_Absent_Days < Total_Absent_Days

\* C5: the leave stage run a second time on the first run's Final_Absent_Dates as
\* the new baseline, with the same leave records (range-based or numeric-only),
\* returns the same Final_Absent_Dates.
C5_LeaveIdempotent ==
    (pc = "adjusted" /\ leaveRuns = 2) => Final_Absent_Dates = Absent_Dates

\* C6: the credit stage run a second time on the first run's
\* Final_Absent_Dates_After_Pending as the new Final_Absent_Dates, with the same
\* credit and requested dates, removes no further date.
C6_CreditIdempotent ==
    (pc = "credited" /\ pendingRuns = 2) =>
        Final_Absent_Dates_After_Pending = Final_Absent_Dates

C8_OverdrawClipped ==
    pc = "credited" =>
        /\ Total_Absent_After_Pending >= 0
        /\ Total_Pending_OFFs >= ToFloat(Len(Final_Absent_Dates)) =>
               /\ Range(Pending_OFF_Dates) = Range(Final_Absent_Dates)
               /\ Final_Absent_Dates_After_Pending = <<>>
               /\ Total_Absent_After_Pending = 0
        /\ Len(Pending_OFF_Dates) =
               Min(IntOf(Total_Pending_OFFs), Len(Final_Absent_Dates))
        /\ Len(Final_Absent_Dates) - Len(Final_Absent_Dates_After_Pending) =
               Min(IntOf(Total_Pending_OFFs), Len(Final_Absent_Dates))

\* a credit larger than the one absence there is
C8_Witness ==
    /\ pc = "credited"
    /\ Len(Final_Absent_Dates) = 1
    /\ Total_Pending_OFFs > ToFloat(1)
    /\ Pending_OFF_Dates = Final_Absent_Dates
    /\ Final_Absent_Dates_After_Pending = <<>>
    /\ Total_Absent_After_Pending = 0

-----------------------------------------------------------------------------
(* Properties of the Punch Normalizer                                      *)

\* C9: a sorted employee-day punch list of length 1 is cleaned to length 1; a
\* list of length 2 or more, with or without status labels, is cleaned to at
\* least 2 punches that include the original first and the original last punch.
C9_FirstAndLastKept ==
    pc = "cleaned" =>
        /\ Len(group) = 1 => Len(consolidated_punches_list) = 1
        /\ Len(group) >= 2 =>
               /\ Len(consolidated_punches_list) >= 2
               /\ group[1] \in Range(consolidated_punches_list)
               /\ group[Len(group)] \in Range(consolidated_punches_list)

\* three or more unlabelled punches, all within ten minutes, are cleaned to two
C9_Witness ==
    /\ pc = "cleaned"
    /\ ~status_column_was_present
    /\ Len(group) >= 3
    /\ group[Len(group)].Original_DateTime - group[1].Original_DateTime
           <= ConsolidationMinutes
    /\ group[Len(group)].Original_DateTime > group[1].Original_DateTime
    /\ Len(consolidated_punches_list) = 2

-----------------------------------------------------------------------------
(* Properties of the Overnight Shift Matcher                               *)

IsIn(k) == StripLower(records[k].Status) = "c/in"
IsOut(k) == StripLower(records[k].Status) = "c/out"

\* the positions of the entry punches, in order
EntryPositions == SortedSet({k \in DOMAIN records : IsIn(k)})

\* the exits an entry at position k can be paired with: later, no entry in
\* between, at most 20 hours after the entry
ExitsFor(k) ==
    {j \in (k + 1)..Len(records) :
        /\ IsOut(j)
        /\ \A m \in (k + 1)..(j - 1) : ~IsIn(m)
        /\ records[j].Original_DateTime - records[k].Original_DateTime
               <= MAX_SHIFT_DURATION}

\* C10: each entry punch gives one record, dated on the entry's calendar date:
\* paired with the nearest later exit at most 20 hours away that no other entry
\* precedes, with duration exit - entry; open with zero duration when there is
\* no such exit. An exit farther than 20 hours is never matched.
C10_NearestExitWithinCap ==
    pc = "night_done" =>
        /\ Len(daily_report_list_for_employee) = Len(EntryPositions)
        /\ \A n \in DOMAIN daily_report_list_for_employee :
               LET k == EntryPositions[n]
                   shift == daily_report_list_for_employee[n]
               IN  /\ shift.Date = DateOf(records[k].Original_DateTime)
                   /\ IF ExitsFor(k) # {}
                      THEN LET j == MinOf(ExitsFor(k))
                               d == records[j].Original_DateTime
                                      - records[k].Original_DateTime
                           IN  /\ shift.Punches = 2
                               /\ shift.Total_Shift_Duration =
                                      <<d \div 60, d % 60, 0>>
                               /\ shift.Total_Shift_Duration[1] * 60
                                      + shift.Total_Shift_Duration[2]
                                      <= MAX_SHIFT_DURATION
                               /\ shift.Last_Punch_Time =
                                      Strftime12(records[j].Original_DateTime)
                      ELSE /\ shift.Punches = 1
                           /\ shift.Total_Shift_Duration = <<0, 0, 0>>

\* entry 23:30 on day 1, exit 07:30 on day 2, and an exit at 23:00 on day 3 that
\* is left unmatched: one record on day 1 of 08:00:00
C10_Witness ==
    /\ pc = "night_done"
    /\ records = <<Punch(1410, "C/In"), Punch(1890, "C/Out"), Punch(4260, "C/Out")>>
    /\ Len(daily_report_list_for_employee) = 1
    /\ daily_report_list_for_employee[1].Date = 1
    /\ daily_report_list_for_employee[1].Total_Shift_Duration = <<8, 0, 0>>
    /\ daily_report_list_for_employee[1].Last_Punch_Time = <<7, 30, 0, "AM">>

-----------------------------------------------------------------------------
(* Properties of the Shift Inference Engine                                *)

\* the cleaned punches are labelled entry, exit, entry, exit
LabelledInOutInOut ==
    /\ status_column_was_present
    /\ Len(consolidated_punches_list) = 4
    /\ \A k \in 1..4 :
           consolidated_punches_list[k].Status = IF k % 2 = 1 THEN "C/In" ELSE "C/Out"

\* no labels, or labels that are all the same
NoUsableAlternation ==
    \/ ~status_column_was_present
    \/ \A k \in DOMAIN consolidated_punches_list :
           consolidated_punches_list[k].Status = consolidated_punches_list[1].Status

TimeAt(k) == consolidated_punches_list[k].Original_DateTime

\* C11: when the cleaned list is four punches labelled entry, exit, entry, exit,
\* or has four or more punches whose labels give no usable alternation, the
\* inference returns shift = (p2 - p1) + (p4 - p3) and break = p3 - p2, and the
\* intervals after the 4th punch are General intervals that add to neither.
C11_TwoShiftTemplate ==
    (/\ pc = "inferred"
     /\ \/ LabelledInOutInOut
        \/ (Len(consolidated_punches_list) >= 4 /\ NoUsableAlternation))
    => /\ total_shift_duration = (TimeAt(2) - TimeAt(1)) + (TimeAt(4) - TimeAt(3))
       /\ total_break_duration = TimeAt(3) - TimeAt(2)
       /\ Len(individual_interval_details) = Len(consolidated_punches_list) - 1
       /\ \A k \in DOMAIN individual_interval_details :
              /\ individual_interval_details[k].duration = TimeAt(k + 1) - TimeAt(k)
              /\ individual_interval_details[k].type =
                     IF k > 3 THEN "General"
                     ELSE IF k = 2 THEN "Break" ELSE "Shift"

\* 08:00, 13:00, 14:00, 19:00 without labels: shift 10:00:00, break 01:00:00
C11_Witness ==
    /\ pc = "inferred"
    /\ ~status_column_was_present
    /\ Len(consolidated_punches_list) = 4
    /\ <<TimeAt(1), TimeAt(2), TimeAt(3), TimeAt(4)>> = <<0, 300, 360, 660>>
    /\ format_timedelta_to_hms(total_shift_duration) = <<10, 0, 0>>
    /\ format_timedelta_to_hms(total_break_duration) = <<1, 0, 0>>

-----------------------------------------------------------------------------
(* Properties of the Rule Resolver                                         *)

\* the three layers the resolver reads for the names it was given
DefaultLayer ==
    DictGet(DictGet(company_configs, company_name, EmptyDict),
            "default_rules", EmptyDict)
LocationLayer ==
    DictGet(DictGet(DictGet(company_configs, company_name, EmptyDict),
                    "location_rules", EmptyDict), source_name, EmptyDict)
EmployeeLayer ==
    DictGet(DictGet(DictGet(company_configs, company_name, EmptyDict),
                    "employee_overrides", EmptyDict), employee_no, EmptyDict)

\* the rest-day policies a rule set configures
RotationalActive(rule_set) == RuleGet(rule_set, "is_rotational_off", FALSE)
AlternatingActive(rule_set) ==
    RuleGet(rule_set, "weekend_rule_type", "fixed") = "alternating_f_fs"
FixedActive(rule_set) ==
    /\ RuleGet(rule_set, "weekend_rule_type", "fixed") = "fixed"
    /\ RuleGet(rule_set, "weekend_days", <<>>) # <<>>

ActivePolicies(rule_set) ==
    {p \in {"fixed", "alternating", "rotational"} :
        \/ (p = "fixed" /\ FixedActive(rule_set))
        \/ (p = "alternating" /\ AlternatingActive(rule_set))
        \/ (p = "rotational" /\ RotationalActive(rule_set))}

\* weekend_days of the company and location layers, location first
LayeredWeekendDays ==
    IF "weekend_days" \in DOMAIN LocationLayer THEN LocationLayer["weekend_days"][2]
    ELSE IF "weekend_days" \in DOMAIN DefaultLayer
    THEN DefaultLayer["weekend_days"][2]
    ELSE <<>>

LayersNarrowestFirst == <<EmployeeLayer, LocationLayer, DefaultLayer>>

\* the value of key k in the narrowest layer that defines it
NarrowestValue(k) ==
    LET n == MinOf({m \in 1..3 : k \in DOMAIN LayersNarrowestFirst[m]})
    IN  LayersNarrowestFirst[n][k]

\* the value of key j of the nested map k in the narrowest layer that defines it
NarrowestNested(k, j) ==
    LET n == MinOf({m \in 1..3 : /\ k \in DOMAIN LayersNarrowestFirst[m]
                                 /\ j \in DOMAIN LayersNarrowestFirst[m][k][2]})
    IN  LayersNarrowestFirst[n][k][2][j]

\* C18: for every rule key the resolved value is the one of the narrowest layer
\* that defines it (employee, else location, else company default), nested maps
\* being merged key by key; an employee override of is_rotational_off to false
\* gives a non-rotational rule set; unknown names contribute no key.
C18_NarrowestLayerWins ==
    pc = "rules_done" =>
        /\ \A k \in DOMAIN DefaultLayer \cup DOMAIN LocationLayer
                       \cup DOMAIN EmployeeLayer :
              /\ k \in DOMAIN effective_rules
              /\ IF isinstance_dict(NarrowestValue(k))
                 THEN /\ isinstance_dict(effective_rules[k])
                      /\ \A m \in 1..3 :
                            k \in DOMAIN LayersNarrowestFirst[m] =>
                                \A j \in DOMAIN LayersNarrowestFirst[m][k][2] :
                                    effective_rules[k][2][j] = NarrowestNested(k, j)
                 ELSE effective_rules[k] = NarrowestValue(k)
        /\ ("is_rotational_off" \in DOMAIN EmployeeLayer
            /\ EmployeeLayer["is_rotational_off"][2] = FALSE)
               => ~RotationalActive(effective_rules)
        /\ DOMAIN effective_rules \subseteq
               DOMAIN DefaultLayer \cup DOMAIN LocationLayer \cup DOMAIN EmployeeLayer
                   \cup {"is_rotational_off", "rotational_days_off_per_week"}

-----------------------------------------------------------------------------
(* Properties of the Calendar Math                                         *)

PeriodDays == start_date..end_date

\* C15: over [start, end] a rotational rule set gives
\* total_days - total_days * offsPerWeek / 7; a fixed one gives the number of
\* dates whose weekday is not in the weekend set; the alternating one gives the
\* number of dates that do not rest, where Friday rests in odd ISO weeks and
\* Friday and Saturday rest in even ISO weeks; start > end gives 0.
C15_ExpectedWorkingDays ==
    (pc = "calendar_done" /\ start_date # NaT /\ end_date # NaT) =>
        LET total_days == (end_date - start_date) + 1
            weekend == Range(RuleGet(rules, "weekend_days", <<FRIDAY, SATURDAY>>))
        IN  IF start_date > end_date THEN expected_working_days = 0
            ELSE IF RuleGet(rules, "is_rotational_off", FALSE)
            THEN expected_working_days =
                     7 * total_days
                         - total_days * RuleGet(rules, "rotational_days_off_per_week", 1)
            ELSE IF RuleGet(rules, "weekend_rule_type", "fixed") = "fixed"
            THEN expected_working_days =
                     7 * Cardinality({d \in PeriodDays : Weekday(d) \notin weekend})
            ELSE expected_working_days =
                     7 * Cardinality(
                            {d \in PeriodDays :
                                ~(\/ Weekday(d) = FRIDAY
                                  \/ (IsoWeek(d) % 2 = 0 /\ Weekday(d) = SATURDAY))})

\* 28 days with one rotational day off per week: 24.0
C15_Witness ==
    /\ pc = "calendar_done"
    /\ (end_date - start_date) + 1 = 28
    /\ RuleGet(rules, "is_rotational_off", FALSE)
    /\ RuleGet(rules, "rotational_days_off_per_week", 1) = 1
    /\ expected_working_days = ToSevenths(24)

-----------------------------------------------------------------------------
(* Properties of the baseline summary                                      *)

\* the employee's effective window as the summary reads it
ReportWindow == MapGet(effective_dates_map, <<report_start, report_end>>)

RowsOn(d) == {row \in window_df : row.Date = d}

IsRestDay(d) ==
    /\ ~RuleGet(rules, "is_rotational_off", FALSE)
    /\ is_weekend(d, rules)

\* present for the enumerator: some record of the date has a shift duration
\* above 0 or is a single-punch day
EnumeratorPresent(d) ==
    \E row \in RowsOn(d) :
        \/ row.Duration > 0
        \/ row.Punch_Status = "Single Punch (0 Shift Duration)"
        \/ (row.Punches = 1 /\ row.Duration = 0)

\* C14: Absent_Dates is exactly the ascending, duplicate-free list of the dates
\* of the employee's window that are not rest days of the resolved rest-day
\* policy, not vacation days (none at this stage) and not present days.
C14_ExactAbsenceList ==
    pc = "summary_done" =>
        LET expected == {d \in ReportWindow[1] .. ReportWindow[2] :
                            ~IsRestDay(d) /\ ~EnumeratorPresent(d)}
        IN  /\ {ToDatetime(x) : x \in Range(Absent_Dates)} = expected
            /\ Len(Absent_Dates) = Cardinality(expected)
            /\ \A a, b \in DOMAIN Absent_Dates :
                   a < b => ToDatetime(Absent_Dates[a]) < ToDatetime(Absent_Dates[b])

\* C16: the baseline Total_Absent_Days the summary returns is
\* Total_Expected_Working_Days_In_Period - Total_Present_Days, clipped at 0.
C16_AbsentIsExpectedMinusPresent ==
    pc = "summary_done" =>
        Total_Absent_Days =
            ClipLower0(Total_Expected_Working_Days_In_Period - Total_Present_Days)

\* C17: no date the summary counts in Total_Present_Days (duration > 0 or at
\* least one punch) is in Absent_Dates, days of two or more punches with a zero
\* shift duration included.
C17_PresentNeverAbsent ==
    pc = "summary_done" =>
        \A row \in window_df :
            summary_is_present(row) => Strftime(row.Date) \notin Range(Absent_Dates)

-----------------------------------------------------------------------------
(* Properties of the Day-Boundary Assigner                                 *)

\* the location of the row is an overnight / 24-hour location of config.py
IsOvernightLocation(row) ==
    LET r == get_effective_rules_for_employee_day(COMPANY_CONFIGS,
                 selected_company_name, Employee, row.Source_Name)
    IN  \/ RuleGet(r, "is_24_hour_location", FALSE)
        \/ RuleGet(r, "opening_hours_count", 0) = 24

\* the earliest calendar date of the punches
DatasetMinDate ==
    MinOf({DateOf(combined_df[k].Original_DateTime) : k \in DOMAIN combined_df})

\* C19: a punch gets the previous calendar day as its logical date if and only
\* if its time is in [00:00, 01:00), its label marks an exit, its location is
\* not an overnight / 24-hour location and its calendar date is not the
\* dataset's minimum date; every other punch keeps its calendar date.
C19_DayBoundary ==
    pc = "boundary_done" =>
        \A k \in DOMAIN combined_df :
            LET row == combined_df[k]
                calendar_date == DateOf(row.Original_DateTime)
            IN  IF /\ TimeOf(row.Original_DateTime) < 60
                   /\ row.Status = "C/Out"
                   /\ ~IsOvernightLocation(row)
                   /\ calendar_date # DatasetMinDate
                THEN row.Date = calendar_date - 1
                ELSE row.Date = calendar_date

-----------------------------------------------------------------------------
(* Properties of the effective employment window                           *)

\* the start markers of the employee: new-hire and return-from-leave dates
StartMarkers ==
    {r.start_date : r \in {x \in RowsOf(overrides_df, Employee) :
        x.type \in {"new_hire", "back_from_vacation"} /\ x.start_date # NaT}}

\* the stop-working markers of the employee
StopMarkers ==
    {IF r.end_date # NaT THEN r.end_date ELSE r.start_date :
        r \in {x \in RowsOf(overrides_df, Employee) :
                  x.type = "stop_working"
                  /\ (x.end_date # NaT \/ x.start_date # NaT)}}

\* the later of the global start and the latest start marker, the earlier of
\* the global end and the earliest stop-working marker
NarrowedWindow ==
    <<IF StartMarkers = {} THEN global_start_date
      ELSE Max(global_start_date, MaxOf(StartMarkers)),
      IF StopMarkers = {} THEN global_end_date
      ELSE Min(global_end_date, MinOf(StopMarkers))>>

\* C20: the window of an employee starts at the later of the global start and
\* the latest new-hire / return-from-leave marker and ends at the earlier of
\* the global end and the earliest stop-working marker, and
\* get_employee_effective_windows and apply_vacation_adjustments both use
\* this window.
C20_SameNarrowedWindow ==
    pc = "window_done" =>
        /\ MapGet(effective_map, <<global_start_date, global_end_date>>)
               = NarrowedWindow
        /\ leave_window = NarrowedWindow

-----------------------------------------------------------------------------
(* Properties of the Leave Adjustment Stage                                *)

\* the dates one leave record names: from the earlier to the later of its two
\* dates, or the single date it has
RecordDates(r) ==
    IF r.start_date = NaT /\ r.end_date = NaT THEN {}
    ELSE IF r.start_date = NaT THEN {r.end_date}
    ELSE IF r.end_date = NaT THEN {r.start_date}
    ELSE Min(r.start_date, r.end_date) .. Max(r.start_date, r.end_date)

\* the dates covered by a vacation, sick, emergency or unpaid record of the employee
CoveredByLeave ==
    UNION {RecordDates(r) : r \in {x \in RowsOf(overrides_df, Employee) :
                                      x.type \in excused_types}}

BaselineSet == Range(ToDatetimeAll(Absent_Dates))
FinalSet == Range(ToDatetimeAll(Final_Absent_Dates))
InsideWindow == {d \in BaselineSet : leave_window[1] <= d /\ d <= leave_window[2]}

NumericOnly ==
    /\ RowsOf(overrides_df, Employee) # {}
    /\ \A r \in RowsOf(overrides_df, Employee) : r.sheet = "numeric"

\* the whole days of the employee's vacation, sick, emergency and unpaid records
LeaveDayCount == IntOf(SumDays(overrides_df, Employee))

\* C22: an employee whose leave records carry only a day count, N days in
\* total, has exactly the min(N, number of in-window absences) earliest
\* in-window baseline dates excused, whether or not other employees of the
\* same leave input have range-based records.
C22_NumericExcusal ==
    (pc = "leave_done" /\ NumericOnly) =>
        LET earliest == Range(Prefix(SortedSet(InsideWindow), LeaveDayCount))
        IN  /\ FinalSet = InsideWindow \ earliest
            /\ Excused_Total = Cardinality(BaselineSet \ InsideWindow)
                                 + Cardinality(earliest)

-----------------------------------------------------------------------------
(* Properties of the interior rule of the Punch Normalizer                 *)

\* the punches of the group at the positions K, in the order of the group
PunchesAt(K) ==
    LET idx == SortedSet(K)
    IN  [k \in DOMAIN idx |-> group[idx[k]]]

\* the last position of K before position j
LastKeptBefore(K, j) == MaxOf({k \in K : k < j})

\* position j holds an interior punch that is more than 10 minutes after the
\* punch last kept before it, or whose label differs from that punch's label
\* when labels are available
InteriorRuleKeeps(K, j) ==
    LET last_kept == group[LastKeptBefore(K, j)]
    IN  \/ group[j].Original_DateTime - last_kept.Original_DateTime > 10
        \/ /\ status_column_was_present
           /\ group[j].Status # last_kept.Status

\* C23: an interior punch (neither first nor last) is kept if and only if it is
\* more than 10 minutes after the last kept punch, or labels are available and
\* its label differs from the last kept punch's label; the cleaned list is an
\* order-preserving sub-list of the original.
C23_InteriorRule ==
    pc = "cleaned" =>
        \E K \in SUBSET (1 .. Len(group)) :
            /\ 1 \in K
            /\ consolidated_punches_list = PunchesAt(K)
            /\ \A j \in 2 .. (Len(group) - 1) :
                   j \in K <=> InteriorRuleKeeps(K, j)

\* a labelled day on which one interior punch is dropped and another, within
\* 10 minutes of the punch kept before it, is kept for its label
C23_Witness ==
    /\ pc = "cleaned"
    /\ status_column_was_present
    /\ Len(group) = 5
    /\ Len(consolidated_punches_list) = 4
    /\ \E k \in 2 .. 3 :
          /\ consolidated_punches_list[k].Original_DateTime
                 - consolidated_punches_list[k - 1].Original_DateTime <= 10
          /\ consolidated_punches_list[k].Status
                 # consolidated_punches_list[k - 1].Status

-----------------------------------------------------------------------------
(* Properties of the fixed-break deduction and the day flags               *)

fixed_break_deduction_minutes ==
    RuleGet(effective_rules, "fixed_break_deduction_minutes", 0)
fixed_break_threshold_hours ==
    RuleGet(effective_rules, "fixed_break_threshold_hours", 0)

\* a deduction is configured, the shift reaches the threshold and no break
\* was detected
FixedBreakApplies ==
    /\ fixed_break_deduction_minutes > 0
    /\ total_shift_duration >= fixed_break_threshold_hours
    /\ total_break_duration = 0

\* C24: the fixed-break deduction is applied only when
\* fixed_break_deduction_minutes > 0, the shift is at least
\* fixed_break_threshold_hours and no break was detected; applied, it moves
\* min(shift, deduction) from the shift to the break, so shift + break is
\* unchanged and the shift becomes zero when it is not longer than the
\* deduction; in every other case shift and break are left unchanged.
C24_FixedBreak ==
    [][pc = "day_inferred" =>
          LET moved == IF FixedBreakApplies
                       THEN Min(total_shift_duration, fixed_break_deduction_minutes)
                       ELSE 0
          IN  /\ total_shift_duration' = total_shift_duration - moved
              /\ total_break_duration' = total_break_duration + moved
              /\ total_shift_duration' + total_break_duration'
                     = total_shift_duration + total_break_duration
              /\ (FixedBreakApplies
                    /\ total_shift_duration <= fixed_break_deduction_minutes)
                     => total_shift_duration' = 0]_vars

\* an eleven-hour presence without a detected break from which the hour of the
\* fixed break has been taken
C24_Witness ==
    /\ pc = "day_deducted"
    /\ fixed_break_deduction_minutes = 60
    /\ fixed_break_threshold_hours = 360
    /\ Len(consolidated_punches_list) = 2
    /\ total_shift_duration = 600
    /\ total_break_duration = 60

short_t_threshold_hours == RuleGet(effective_rules, "short_t_threshold_hours", 450)
more_t_start_hours == RuleGet(effective_rules, "more_t_start_hours", 540)
more_t_enabled == RuleGet(effective_rules, "more_t_enabled", TRUE)

\* C25: moreTDuration is shift - moreTStartHours when more-time is enabled and
\* shift > moreTStartHours, otherwise 0; shortTDuration is
\* shortThresholdHours - shift when 0 < shift < shortThresholdHours, otherwise
\* 0; each flag is true exactly when its duration is strictly positive, so a
\* day of zero duration is never flagged short, and with
\* shortThresholdHours <= moreTStartHours the two flags are never both true.
C25_MoreShort ==
    pc = "day_done" =>
        /\ daily_more_t_td =
               IF more_t_enabled /\ total_shift_duration > more_t_start_hours
               THEN total_shift_duration - more_t_start_hours ELSE 0
        /\ daily_short_t_td =
               IF 0 < total_shift_duration
                  /\ total_shift_duration < short_t_threshold_hours
               THEN short_t_threshold_hours - total_shift_duration ELSE 0
        /\ is_more_t_day <=> daily_more_t_td > 0
        /\ is_short_t_day <=> daily_short_t_td > 0
        /\ total_shift_duration = 0 => ~is_short_t_day
        /\ short_t_threshold_hours <= more_t_start_hours
               => ~(is_more_t_day /\ is_short_t_day)

\* five hours of presence under a threshold of seven and a half hours: two
\* and a half hours short, flagged short and not flagged for more-time
C25_Witness ==
    /\ pc = "day_done"
    /\ total_shift_duration = 300
    /\ short_t_threshold_hours = 450
    /\ daily_short_t_td = 150
    /\ is_short_t_day
    /\ ~is_more_t_day

\* the leave input without the records of other employees
OwnRecords == SelectSeq(overrides_df, LAMBDA r : r.id = Employee)

\* the leave input with its records in the opposite order
ReversedRecords ==
    [k \in DOMAIN overrides_df |-> overrides_df[Len(overrides_df) + 1 - k]]

\* Final_Absent_Dates of the employee's baseline row under the leave input v
FinalUnder(v) ==
    apply_vacation_adjustments({"Absent_Dates", "Total_Absent_Days"}, Absent_Dates,
        [SummaryRow EXCEPT !.Excused_Total = 0, !.Final_Absent_Dates = <<>>,
                           !.Final_Absent_Days = 0], v).Final_Absent_Dates

\* C26: with the reporting window and the rule tables fixed, what is computed
\* for one employee is the same whatever records other employees of the same
\* batch have and whatever the order of processing; here for the
\* leave-adjusted absence list and the leave records of the batch.
C26_EmployeeIndependence ==
    pc = "leave_done" =>
        /\ Final_Absent_Dates = FinalUnder(OwnRecords)
        /\ Final_Absent_Dates = FinalUnder(ReversedRecords)

-----------------------------------------------------------------------------
(* Properties of rule resolution over shared objects                       *)

\* the value of the tables held on the heap
TablesOnHeap ==
    "Co" :> (("default_rules" :> Deref(heap, TableId["default_rules"]))
             @@ ("location_rules" :>
                    ("Site" :> Deref(heap, TableId["location_rules"])))
             @@ ("employee_overrides" :>
                    ("7" :> Deref(heap, TableId["employee_overrides"]))))

\* C27: after any sequence of get_effective_rules_for_employee_day calls,
\* those in which the implicit-rotational inference fires included, the rule
\* tables hold the value they held before the calls, and every call returns
\* what its arguments resolve to on those tables.
C27_TablesUnchanged ==
    /\ TablesOnHeap = company_configs
    /\ pc = "heap_done" =>
          effective_rules =
              get_effective_rules_for_employee_day(company_configs, company_name,
                                                   employee_no, source_name)

\* a later call returned after a call in which the inference fired
C27_Witness ==
    /\ pc = "heap_done"
    /\ calls = MaxCalls
    /\ \E id \in DOMAIN heap :
          "rotational_days_off_per_week" \in DOMAIN heap[id]
    /\ "shift_bands" \in DOMAIN effective_rules
    /\ "is_rotational_off" \in DOMAIN effective_rules

\* C28: after apply_vacation_adjustments every baseline absence date is either
\* counted as excused or kept in Final_Absent_Dates, never both and never
\* neither, so Excused_Total + Final_Absent_Days = Total_Absent_Days.
C28_LeavePartition ==
    pc = "leave_done" =>
        /\ Range(Final_Absent_Dates) \subseteq Range(Absent_Dates)
        /\ Cardinality(Range(Final_Absent_Dates)) = Len(Final_Absent_Dates)
        /\ Excused_Total =
               Cardinality(Range(Absent_Dates) \ Range(Final_Absent_Dates))
        /\ Excused_Total + Final_Absent_Days = Total_Absent_Days

\* a leave range that covers an attended day, with dates excused and dates kept
C28_Witness ==
    /\ pc = "leave_done"
    /\ Excused_Total > 0
    /\ Final_Absent_Days > 0
    /\ leave_format = "ranges"
    /\ \E k \in DOMAIN overrides_df :
          /\ overrides_df[k].id = Employee
          /\ overrides_df[k].type \in excused_types
          /\ \E d \in RecordDates(overrides_df[k]) :
                /\ leave_window[1] <= d /\ d <= leave_window[2]
                /\ Strftime(d) \notin Range(Absent_Dates)

\* last cleaned punch time - first cleaned punch time
CleanedSpan ==
    IF consolidated_punches_list = <<>> THEN 0
    ELSE consolidated_punches_list[Len(consolidated_punches_list)].Original_DateTime
             - consolidated_punches_list[1].Original_DateTime

\* C29: for every chronologically sorted employee-day punch list and every
\* rule set the inference returns shift >= 0 and break >= 0 with
\* shift + break <= last cleaned punch time - first cleaned punch time, before
\* and after the fixed-break deduction.
C29_DurationsWithinSpan ==
    pc \in {"day_inferred", "day_deducted", "day_done"} =>
        /\ total_shift_duration >= 0
        /\ total_break_duration >= 0
        /\ total_shift_duration + total_break_duration <= CleanedSpan

\* a five-hour presence from which a fixed break of six hours was asked: the
\* shift is zero after the deduction and the break is the whole presence
C29_Witness ==
    /\ pc = "day_deducted"
    /\ fixed_break_deduction_minutes = 360
    /\ CleanedSpan = 300
    /\ total_shift_duration = 0
    /\ total_break_duration = 300

-----------------------------------------------------------------------------
(* Properties of the Overnight Shift Matcher's loop                        *)

\* records n of the report is the record of the entry at position k, open when
\* x = 0 and closed by the exit at position x otherwise
RecordOf(n, k, x) ==
    LET shift == daily_report_list_for_employee[n]
    IN  /\ shift.Date = DateOf(records[k].Original_DateTime)
        /\ shift.First_Punch_Time = Strftime12(records[k].Original_DateTime)
        /\ IF x = 0
           THEN /\ shift.Punches = 1
                /\ shift.Last_Punch_Time = shift.First_Punch_Time
           ELSE /\ shift.Punches = 2
                /\ x > k
                /\ IsOut(x)
                /\ shift.Last_Punch_Time = Strftime12(records[x].Original_DateTime)

\* the report holds one record for each entry punch, in order, and no other;
\* no exit punch closes two records
OneRecordPerEntry ==
    /\ Len(daily_report_list_for_employee) = Len(EntryPositions)
    /\ \E exit \in [DOMAIN daily_report_list_for_employee -> 0..Len(records)] :
          /\ \A n \in DOMAIN exit : RecordOf(n, EntryPositions[n], exit[n])
          /\ \A n, m \in DOMAIN exit :
                (n # m /\ exit[n] # 0) => exit[n] # exit[m]

\* only a leading exit punch between 01:00 and 07:00 is discarded
DiscardsLeadingExitOnly ==
    pc = "night_start" =>
        \/ records' = records
        \/ /\ records' = Tail(records)
           /\ StripLower(records[1].Status) = "c/out"
           /\ ignore_start_time <= TimeOf(records[1].Original_DateTime)
           /\ TimeOf(records[1].Original_DateTime) <= ignore_end_time

====
